---- MODULE Spec2Model ----
(***************************************************************************)
(* SmartDeskHelp: the semantic file indexer (IndexerService), the lazy     *)
(* chunking path of the file router (RouterService.searchChunks) and the   *)
(* relational store they share, as a state machine.                        *)
(*                                                                         *)
(* A path is a sequence of names; dirname/basename/join are SubSeq, last   *)
(* element and Append.  An embedding is a symbolic vector: Embed(text) is  *)
(* a unit vector determined by the text, MeanPool(vs) is determined by the *)
(* multiset vs.  A stored blob or nullable column is a sequence of length  *)
(* 0 (null) or 1.  A nullable integer id is 0 when null (ids start at 1).  *)
(***************************************************************************)
EXTENDS Integers, Sequences, FiniteSets, Bags, TLC

(* ------------------------------------------------------------------ *)
(* Bounds of the model                                                  *)
(* ------------------------------------------------------------------ *)
MaxPasses == 2
MaxFsOps == 2
MaxShortlist == 1
MaxTreeOps == 2

(* ------------------------------------------------------------------ *)
(* Program constants                                                    *)
(* ------------------------------------------------------------------ *)
MAX_DEPTH == 10

SKIP_PATTERNS ==
  { "node_modules", ".git", ".cache", "__pycache__", ".DS_Store",
    "venv", ".venv", "env", ".env", "virtualenv", "site-packages",
    "dist", "build", "out", ".next", ".nuxt", ".output",
    ".idea", ".vscode", ".gradle", ".m2",
    ".pnpm", ".npm", ".yarn", "vendor",
    "coverage", ".turbo", ".parcel-cache", "tmp", "temp" }

TEXT_EXTENSIONS ==
  { "txt", "md", "json", "js", "ts", "jsx", "tsx",
    "py", "html", "css", "csv", "xml", "yaml", "yml",
    "sh", "bash", "zsh", "c", "cpp", "h", "hpp",
    "java", "go", "rs", "rb", "php", "swift", "kt" }

(* ------------------------------------------------------------------ *)
(* The file tree the indexer is run on                                  *)
(* ------------------------------------------------------------------ *)
Root == << "Desktop" >>
DirA == << "Desktop", "a" >>
DirSkip == << "Desktop", "node_modules" >>

F1 == << "Desktop", "f1.txt" >>
F2 == << "Desktop", "f2.png" >>
F3 == << "Desktop", "f3.png" >>
G1 == << "Desktop", "a", "g1.txt" >>
G2 == << "Desktop", "a", "g2.png" >>
U1 == << "Desktop", "a", "u.bin" >>
N1 == << "Desktop", "node_modules", "n1.txt" >>
H1 == << "Desktop", ".hid.txt" >>
T1 == << "Desktop", "~$lock.txt" >>

\* readdir lists entries in this order
DirOrder == << Root, DirA, DirSkip >>
FileOrder == << F1, F2, F3, H1, T1, G1, G2, U1, N1 >>

DirUniverse == { DirOrder[i] : i \in 1..Len(DirOrder) }
FileUniverse == { FileOrder[i] : i \in 1..Len(FileOrder) }
\* entries that never change: a skipped directory, a dotfile, an Office lock file
StaticDirs == { Root, DirSkip }
StaticFiles == { N1, H1, T1 }
\* files that readdir lists but stat() and readFile() reject
Unstatable == { U1 }

NoFile == 0
MtimeValues == { 1000, 1500, 2000 }     \* mtimeMs
ClockBase == 9000                        \* Date.now() of the first pass, ms

Extension(name) ==
  CASE name \in { "f1.txt", "g1.txt", "n1.txt", ".hid.txt", "~$lock.txt" } -> "txt"
    [] name \in { "f2.png", "f3.png", "g2.png" } -> "png"
    [] OTHER -> "bin"

DotNames ==
  { ".hid.txt", ".git", ".cache", ".DS_Store", ".venv", ".env", ".next", ".nuxt",
    ".output", ".idea", ".vscode", ".gradle", ".m2", ".pnpm", ".npm", ".yarn",
    ".turbo", ".parcel-cache" }
StartsWithDot(name) == name \in DotNames
StartsWithTildeDollar(name) == name \in { "~$lock.txt" }

\* the text a file holds, as a function of its modification time; every text is
\* long enough (MIN_CHUNK_SIZE) for splitIntoChunks to return a chunk of it
ContentAt(m) ==
  CASE m = 1000 -> "v1000" [] m = 1500 -> "v1500" [] m = 2000 -> "v2000" [] OTHER -> ""

dirname(p) == SubSeq(p, 1, Len(p) - 1)
basename(p) == p[Len(p)]
join(d, name) == Append(d, name)

Range(s) == { s[i] : i \in 1..Len(s) }

RECURSIVE Concat(_)
Concat(ss) == IF ss = << >> THEN << >> ELSE Head(ss) \o Concat(Tail(ss))

RECURSIVE SortById(_)
SortById(S) ==
  IF S = {} THEN << >>
  ELSE LET r == CHOOSE x \in S : \A y \in S : x.id <= y.id
       IN << r >> \o SortById(S \ { r })

(* ------------------------------------------------------------------ *)
(* Embedding service                                                    *)
(* ------------------------------------------------------------------ *)
embed(text) == [ leaf |-> text, parts |-> EmptyBag ]
ZeroVec == [ leaf |-> << >>, parts |-> EmptyBag ]

SeqToBag(s) == [ e \in Range(s) |-> Cardinality({ i \in 1..Len(s) : s[i] = e }) ]

\* mean, then L2-normalisation; the inputs are unit vectors or the zero vector,
\* so the pool of copies of one vector is that vector
meanPool(embeddings) ==
  IF Len(embeddings) = 0 THEN ZeroVec
  ELSE IF \A i \in 1..Len(embeddings) : embeddings[i] = embeddings[1] THEN embeddings[1]
  ELSE [ leaf |-> << >>, parts |-> SeqToBag(embeddings) ]

NullBlob == << >>
serializeEmbedding(e) == << e >>
deserializeEmbedding(b) == b[1]

(* ------------------------------------------------------------------ *)
(* State                                                                *)
(* ------------------------------------------------------------------ *)
VARIABLES
  fsDirs,        \* directories that exist
  fsFiles,       \* file path -> mtimeMs, NoFile when the file does not exist
  folders,       \* semantic_folders rows
  files,         \* semantic_files rows
  chunks,        \* semantic_chunks rows
  nextFolderId,  \* AUTOINCREMENT counters
  nextFileId,
  pc,            \* position of the indexFromRoot call in flight, "idle" when none
  job,           \* its locals
  spc,           \* position of the searchChunks call in flight
  sjob,          \* its locals
  obs,           \* observations of the run: what the last pass started from and did
  faults,        \* what fails in this run: directories readdir throws on, texts the embedder throws on
  knowledgeNodes,  \* knowledge_nodes rows
  knowledgeItems,  \* knowledge_items rows
  nextNodeId,    \* AUTOINCREMENT counters of the two knowledge tables
  nextItemId,
  treeClock,     \* new Date() of the knowledge tree service
  treeOp,        \* the last buildTree / addItem call: its arguments and the rows before it
  chunking,      \* the splitIntoChunks / extractWithChunks call in flight: its locals
  queryLog,      \* the query calls made on the stored tree, oldest first
  treeCalls,     \* knowledge tree calls that run step by step: caller -> frame
  embedService   \* EmbeddingService: embedder, initPromise and the calls waiting on it

vars == << fsDirs, fsFiles, folders, files, chunks, nextFolderId, nextFileId,
           pc, job, spc, sjob, obs, faults,
           knowledgeNodes, knowledgeItems, nextNodeId, nextItemId, treeClock, treeOp,
           chunking, queryLog, treeCalls, embedService >>
moreVars == << chunking, queryLog, treeCalls, embedService >>
treeVars == << knowledgeNodes, knowledgeItems, nextNodeId, nextItemId, treeClock, treeOp >>
fsVars == << fsDirs, fsFiles >>
storeVars == << folders, files, chunks, nextFolderId, nextFileId >>

Store == [ folders |-> folders, files |-> files, chunks |-> chunks ]

(* ------------------------------------------------------------------ *)
(* File system                                                          *)
(* ------------------------------------------------------------------ *)
Exists(p) == fsFiles[p] # NoFile
StatOk(p) == p \notin Unstatable

\* readdir(folderPath, { withFileTypes: true }): files, then directories
FilesIn(d) == SelectSeq(FileOrder, LAMBDA p : dirname(p) = d /\ Exists(p))
DirsIn(d) == SelectSeq(DirOrder, LAMBDA p : p # Root /\ dirname(p) = d /\ p \in fsDirs)

FileEntries(d) ==
  SelectSeq(FilesIn(d),
            LAMBDA p : ~StartsWithDot(basename(p)) /\ ~StartsWithTildeDollar(basename(p)))

Skipped(folderName) == folderName \in SKIP_PATTERNS \/ StartsWithDot(folderName)

\* readTextContent / readPdfContent / readDocxContent: the text, or << >> for null
ReadContent(p) ==
  IF Extension(basename(p)) \in TEXT_EXTENSIONS /\ StatOk(p) /\ Exists(p)
  THEN << ContentAt(fsFiles[p]) >>
  ELSE << >>

\* readdir(folderPath) rejects
ReaddirThrows(folderPath) == folderPath \in faults.readdir
\* the embedder rejects a batch that holds this text
EmbedThrows(text) == text \in faults.embed

RECURSIVE quickScanStats(_, _)
quickScanStats(folderPath, depth) ==
  IF depth > MAX_DEPTH THEN << >>
  ELSE IF Skipped(basename(folderPath)) THEN << >>
  ELSE IF ReaddirThrows(folderPath) THEN << >>     \* "Skip folders we can't read"
  ELSE LET statable == SelectSeq(FileEntries(folderPath), StatOk)
           here == [ i \in 1..Len(statable) |->
                       [ path |-> statable[i], mtime |-> fsFiles[statable[i]] ] ]
           subs == DirsIn(folderPath)
       IN here \o Concat([ i \in 1..Len(subs) |-> quickScanStats(subs[i], depth + 1) ])

(* ------------------------------------------------------------------ *)
(* Store helpers                                                        *)
(* ------------------------------------------------------------------ *)
\* integer column in { mode: 'timestamp' }: a Date is written as whole seconds
\* and read back as a Date of that many seconds
ToDriverSeconds(ms) == ms \div 1000
FromDriverSeconds(sec) == sec * 1000

FileByPath(fs, p) == { f \in fs : f.path = p }
FolderByPath(fs, p) == { f \in fs : f.path = p }

\* relativePath of a file, the text its filename embedding is made from
relativePath(folderPath, fileName) ==
  LET hits == { i \in 1..Len(folderPath) : folderPath[i] = "Desktop" }
  IN IF hits # {}
     THEN LET desktopIndex == CHOOSE i \in hits : \A j \in hits : i <= j
          IN Append(SubSeq(folderPath, desktopIndex + 1, Len(folderPath)), fileName)
     ELSE << basename(folderPath), fileName >>

\* extractSignature / extractBatch for one file: << >> for null, else
\* << [signature, embedding] >>
extractSignature(p) ==
  LET content == ReadContent(p)
  IN IF content = << >> \/ content[1] = "" THEN << >>
     ELSE IF EmbedThrows(<< "sig", content[1] >>) THEN << >>     \* caught: null
     ELSE << [ signature |-> content[1], embedding |-> embed(<< "sig", content[1] >>) ] >>

\* a row that claims a chunk although none was written
FileRow_Chunked(id, folderId, p, folderPath, mtimeMs) ==
  [ id |-> id,
    folderId |-> folderId,
    path |-> p,
    name |-> basename(p),
    embedding |-> serializeEmbedding(embed(relativePath(folderPath, basename(p)))),
    contentSignature |-> << >>,
    contentEmbedding |-> NullBlob,
    lastModified |-> ToDriverSeconds(mtimeMs),
    chunkCount |-> 1 ]

\* the values of one semantic_files row, chunkCount 0: chunks are made lazily
FileRow(id, folderId, p, folderPath, mtimeMs) ==
  LET sig == extractSignature(p)
      filenameEmb == embed(relativePath(folderPath, basename(p)))
  IN [ id |-> id,
       folderId |-> folderId,
       path |-> p,
       name |-> basename(p),
       embedding |-> serializeEmbedding(filenameEmb),
       contentSignature |-> IF sig = << >> THEN << >> ELSE << sig[1].signature >>,
       contentEmbedding |-> IF sig = << >> THEN NullBlob
                            ELSE serializeEmbedding(sig[1].embedding),
       lastModified |-> ToDriverSeconds(mtimeMs),
       chunkCount |-> 0 ]

\* stat(filePath).mtime, or new Date() when stat throws
MtimeOrNow(p, now) == IF StatOk(p) THEN fsFiles[p] ELSE now

(* ------------------------------------------------------------------ *)
(* indexFromRoot: change detection                                      *)
(* ------------------------------------------------------------------ *)
\* new Set<string>() of dirname(path), in insertion order
RECURSIVE AffectedFolders(_)
AffectedFolders(paths) ==
  IF paths = << >> THEN << >>
  ELSE LET rest == AffectedFolders(SubSeq(paths, 1, Len(paths) - 1))
           d == dirname(paths[Len(paths)])
       IN IF d \in Range(rest) THEN rest ELSE Append(rest, d)

IdleJob ==
  [ kind |-> "none", now |-> 0,
    toAdd |-> << >>, toUpdate |-> << >>, toRemove |-> << >>,
    dels |-> << >>, toIndex |-> << >>, affected |-> << >>,
    folderCache |-> << >>, todo |-> << >>, results |-> << >> ]

StoredSeq == SortById(files)
StoredPaths == { f.path : f \in files }
StoredMtime(p) ==
  LET f == CHOOSE x \in files : x.path = p IN FromDriverSeconds(f.lastModified)

ScanToAdd(cur) ==
  LET s == SelectSeq(cur, LAMBDA c : c.path \notin StoredPaths)
  IN [ i \in 1..Len(s) |-> s[i].path ]

MtimeDiffers(storedMtime, mtime) == (storedMtime \div 1000) # (mtime \div 1000)

ScanToUpdate(cur) ==
  LET s == SelectSeq(cur, LAMBDA c : c.path \in StoredPaths
                                     /\ MtimeDiffers(StoredMtime(c.path), c.mtime))
  IN [ i \in 1..Len(s) |-> s[i].path ]

ScanToRemove(cur) ==
  LET curPaths == { cur[i].path : i \in 1..Len(cur) }
      s == SelectSeq(StoredSeq, LAMBDA f : f.path \notin curPaths)
  IN [ i \in 1..Len(s) |-> s[i].path ]

\* the threshold with >= in place of >
TooManyChanges_AtHalf(changeCount, storedSize) ==
  2 * changeCount >= storedSize \/ storedSize = 0

\* "If too many changes (>50%), just do full reindex"
TooManyChanges(changeCount, storedSize) == 2 * changeCount > storedSize \/ storedSize = 0

PassStart(kind) ==
  [ obs EXCEPT !.pre = Store, !.clean = (obs.passes > 0 /\ ~obs.fsDirty),
               !.preFs = fsFiles, !.running = kind ]
PassEnd(o) ==
  [ o EXCEPT !.passes = @ + 1, !.fsDirty = FALSE, !.lastKind = o.running,
             !.running = "none" ]
\* indexFromRoot rejects: an exception of a callee reaches its caller
PassRejected(o) ==
  [ o EXCEPT !.passes = @ + 1, !.lastKind = "rejected", !.running = "none" ]

IndexFromRoot ==
  /\ pc = "idle"
  /\ obs.passes < MaxPasses
  /\ LET now == ClockBase + 1000 * obs.passes
     IN IF folders = {}
        THEN /\ pc' = "full_del_chunks"
             /\ job' = [ IdleJob EXCEPT !.kind = "full", !.now = now ]
             /\ obs' = PassStart("full")
        ELSE LET cur == quickScanStats(Root, 0)
                 toAdd == ScanToAdd(cur)
                 toUpdate == ScanToUpdate(cur)
                 toRemove == ScanToRemove(cur)
                 changeCount == Len(toAdd) + Len(toUpdate) + Len(toRemove)
                 found == [ IdleJob EXCEPT !.now = now, !.toAdd = toAdd,
                                           !.toUpdate = toUpdate, !.toRemove = toRemove ]
             IN IF changeCount = 0
                THEN /\ pc' = "idle"
                     /\ job' = [ found EXCEPT !.kind = "nochange" ]
                     /\ obs' = PassEnd(PassStart("nochange"))
                ELSE IF TooManyChanges(changeCount, Cardinality(files))
                THEN /\ pc' = "full_del_chunks"
                     /\ job' = [ found EXCEPT !.kind = "full" ]
                     /\ obs' = PassStart("full")
                ELSE /\ pc' = "inc_del_chunks"
                     /\ job' = [ found EXCEPT !.kind = "incremental",
                                              !.dels = toRemove \o toUpdate,
                                              !.toIndex = toAdd \o toUpdate,
                                              !.affected =
                                                AffectedFolders(toAdd \o toUpdate \o toRemove) ]
                     /\ obs' = PassStart("incremental")
  /\ UNCHANGED << fsVars, storeVars, spc, sjob, faults, treeVars, moreVars >>

(* ------------------------------------------------------------------ *)
(* processIncrementalChanges                                            *)
(* ------------------------------------------------------------------ *)
\* steps 1 and 2, first half: look the file up by path, delete its chunks
IncDeleteChunks ==
  /\ pc = "inc_del_chunks"
  /\ job.dels # << >>
  /\ LET hit == FileByPath(files, Head(job.dels))
     IN chunks' = { c \in chunks : \A f \in hit : c.fileId # f.id }
  /\ pc' = "inc_del_file"
  /\ UNCHANGED << fsVars, folders, files, nextFolderId, nextFileId, job, spc, sjob, obs, faults, treeVars, moreVars >>

\* the delete with the folder, not the path, in its where clause
IncDeleteFile_WholeFolder ==
  /\ pc = "inc_del_file"
  /\ files' = { f \in files : dirname(f.path) # dirname(Head(job.dels)) }
  /\ job' = [ job EXCEPT !.dels = Tail(@) ]
  /\ pc' = "inc_del_chunks"
  /\ UNCHANGED << fsVars, folders, chunks, nextFolderId, nextFileId, spc, sjob, obs, faults, treeVars, moreVars >>

\* steps 1 and 2, second half: delete the file row by path
IncDeleteFile ==
  /\ pc = "inc_del_file"
  /\ files' = { f \in files : f.path # Head(job.dels) }
  /\ job' = [ job EXCEPT !.dels = Tail(@) ]
  /\ pc' = "inc_del_chunks"
  /\ UNCHANGED << fsVars, folders, chunks, nextFolderId, nextFileId, spc, sjob, obs, faults, treeVars, moreVars >>

IncDeletesDone ==
  /\ pc = "inc_del_chunks"
  /\ job.dels = << >>
  /\ pc' = "inc_index"
  /\ UNCHANGED << fsVars, storeVars, job, spc, sjob, obs, faults, treeVars, moreVars >>

\* the folder row indexFilesBatch creates when the file's folder has none
BatchFolderRow(id, folderPath, rootPath) ==
  [ id |-> id,
    path |-> folderPath,
    parentId |-> 0,
    name |-> basename(folderPath),
    depth |-> Len(folderPath) - Len(rootPath),
    embedding |-> NullBlob,
    fileCount |-> 0 ]

\* step 3: indexFilesBatch, one file per step
IndexFilesBatch ==
  /\ pc = "inc_index"
  /\ job.toIndex # << >>
  /\ LET filePath == Head(job.toIndex)
         folderPath == dirname(filePath)
         cached == { e \in Range(job.folderCache) : e.path = folderPath }
         existing == FolderByPath(folders, folderPath)
         create == cached = {} /\ existing = {}
         folderId == IF cached # {} THEN (CHOOSE e \in cached : TRUE).id
                     ELSE IF existing # {}
                     THEN (CHOOSE f \in existing : TRUE).id
                     ELSE nextFolderId
     IN /\ folders' = IF create
                      THEN folders \cup { BatchFolderRow(nextFolderId, folderPath, Root) }
                      ELSE folders
        /\ nextFolderId' = IF create THEN nextFolderId + 1 ELSE nextFolderId
        /\ IF EmbedThrows(relativePath(folderPath, basename(filePath)))
           THEN \* embedBatch([relativePath]) rejects and nothing catches it
                /\ UNCHANGED << files, nextFileId, job >>
                /\ pc' = "idle"
                /\ obs' = PassRejected(obs)
           ELSE /\ files' = files \cup
                             { FileRow(nextFileId, folderId, filePath, folderPath,
                                       MtimeOrNow(filePath, job.now)) }
                /\ nextFileId' = nextFileId + 1
                /\ job' = [ job EXCEPT !.toIndex = Tail(@),
                                       !.folderCache =
                                          IF cached = {}
                                          THEN Append(@, [ path |-> folderPath,
                                                           id |-> folderId ])
                                          ELSE @ ]
                /\ pc' = "inc_index"
                /\ obs' = obs
  /\ UNCHANGED << fsVars, chunks, spc, sjob, faults, treeVars, moreVars >>

IncIndexDone ==
  /\ pc = "inc_index"
  /\ job.toIndex = << >>
  /\ pc' = "inc_folders"
  /\ UNCHANGED << fsVars, storeVars, job, spc, sjob, obs, faults, treeVars, moreVars >>

\* "Get all files in this folder": where(eq(semanticFiles.path, folderPath))
FilesOfFolderQuery(folderPath) == SortById({ f \in files : f.path = folderPath })

\* content embedding when present, otherwise the filename embedding
FileVectors(rows) ==
  LET usable == SelectSeq(rows, LAMBDA f : f.contentEmbedding # NullBlob
                                           \/ f.embedding # NullBlob)
  IN [ i \in 1..Len(usable) |->
         IF usable[i].contentEmbedding # NullBlob
         THEN deserializeEmbedding(usable[i].contentEmbedding)
         ELSE deserializeEmbedding(usable[i].embedding) ]

\* step 4: updateFolderEmbeddings, one folder per step
UpdateFolderEmbeddings ==
  /\ pc = "inc_folders"
  /\ job.affected # << >>
  /\ LET folderPath == Head(job.affected)
         rows == FilesOfFolderQuery(folderPath)
         hit == FolderByPath(folders, folderPath)
         embeddings == FileVectors(rows)
     IN folders' =
          IF hit = {} \/ Len(embeddings) = 0 THEN folders
          ELSE LET folder == CHOOSE f \in hit : TRUE
               IN { IF f.id = folder.id
                    THEN [ f EXCEPT !.embedding = serializeEmbedding(meanPool(embeddings)) ]
                    ELSE f : f \in folders }
  /\ job' = [ job EXCEPT !.affected = Tail(@) ]
  /\ pc' = "inc_folders"
  /\ UNCHANGED << fsVars, files, chunks, nextFolderId, nextFileId, spc, sjob, obs, faults, treeVars, moreVars >>

IncrementalDone ==
  /\ pc = "inc_folders"
  /\ job.affected = << >>
  /\ pc' = "idle"
  /\ obs' = PassEnd(obs)
  /\ UNCHANGED << fsVars, storeVars, job, spc, sjob, faults, treeVars, moreVars >>

(* ------------------------------------------------------------------ *)
(* performFullIndex                                                     *)
(* ------------------------------------------------------------------ *)
\* the folders indexFolderRecursive inserts, in the order it inserts them:
\* children before their parent
RECURSIVE PostOrder(_, _)
PostOrder(folderPath, depth) ==
  IF depth > MAX_DEPTH THEN << >>
  ELSE IF Skipped(basename(folderPath)) THEN << >>
  ELSE LET subs == IF ReaddirThrows(folderPath) THEN << >> ELSE DirsIn(folderPath)
       IN Concat([ i \in 1..Len(subs) |-> PostOrder(subs[i], depth + 1) ])
          \o << [ path |-> folderPath, depth |-> depth ] >>

FullDeleteChunks ==
  /\ pc = "full_del_chunks"
  /\ chunks' = {}
  /\ pc' = "full_del_files"
  /\ UNCHANGED << fsVars, folders, files, nextFolderId, nextFileId, job, spc, sjob, obs, faults, treeVars, moreVars >>

FullDeleteFiles ==
  /\ pc = "full_del_files"
  /\ files' = {}
  /\ pc' = "full_del_folders"
  /\ UNCHANGED << fsVars, folders, chunks, nextFolderId, nextFileId, job, spc, sjob, obs, faults, treeVars, moreVars >>

FullDeleteFolders ==
  /\ pc = "full_del_folders"
  /\ folders' = {}
  /\ job' = [ job EXCEPT !.todo = PostOrder(Root, 0) ]
  /\ pc' = "full_walk"
  /\ UNCHANGED << fsVars, files, chunks, nextFolderId, nextFileId, spc, sjob, obs, faults, treeVars, moreVars >>

\* childResults: the results of the subdirectories already indexed
ChildResults(folderPath, results) ==
  SelectSeq(results, LAMBDA r : r.path \in Range(DirsIn(folderPath)))

\* the pool without the child folders
AllEmbeddings_FilesOnly(fileRows, childResults) == FileVectors(fileRows)

\* step 5: file vectors (content signature preferred), then child folder vectors
AllEmbeddings(fileRows, childResults) ==
  FileVectors(fileRows) \o [ i \in 1..Len(childResults) |-> childResults[i].embedding ]

\* what throws inside the try block of indexFolderRecursive: readdir, the
\* embedBatch of extractBatch over the signatures, the embedBatch of the filenames
FolderThrows(folderPath) ==
  \/ ReaddirThrows(folderPath)
  \/ \E p \in Range(FileEntries(folderPath)) :
       \/ EmbedThrows(relativePath(folderPath, basename(p)))
       \/ ReadContent(p) # << >> /\ ReadContent(p)[1] # ""
          /\ EmbedThrows(<< "sig", ReadContent(p)[1] >>)

\* indexFolderRecursive for one folder whose subdirectories are done
IndexFolderRecursive ==
  /\ pc = "full_walk"
  /\ job.todo # << >>
  /\ LET folderPath == Head(job.todo).path
         depth == Head(job.todo).depth
         fileEntries == FileEntries(folderPath)
         childResults == ChildResults(folderPath, job.results)
         savedId == nextFolderId
         fileRows == [ i \in 1..Len(fileEntries) |->
                         FileRow(nextFileId + i - 1, savedId, fileEntries[i], folderPath,
                                 MtimeOrNow(fileEntries[i], job.now)) ]
         folderEmbedding == meanPool(AllEmbeddings(fileRows, childResults))
         savedFolder == [ id |-> savedId,
                          path |-> folderPath,
                          parentId |-> 0,
                          name |-> basename(folderPath),
                          depth |-> depth,
                          embedding |-> serializeEmbedding(folderEmbedding),
                          fileCount |-> Len(fileEntries) ]
         childIds == { childResults[i].id : i \in 1..Len(childResults) }
     IN IF FolderThrows(folderPath)
        THEN \* catch (error): return null, nothing of this folder is stored
             /\ UNCHANGED << folders, nextFolderId, files, nextFileId >>
             /\ job' = [ job EXCEPT !.todo = Tail(@) ]
        ELSE
        /\ folders' = { IF f.id \in childIds THEN [ f EXCEPT !.parentId = savedId ] ELSE f :
                          f \in folders } \cup { savedFolder }
        /\ nextFolderId' = nextFolderId + 1
        /\ files' = files \cup Range(fileRows)
        /\ nextFileId' = nextFileId + Len(fileEntries)
        /\ job' = [ job EXCEPT !.todo = Tail(@),
                               !.results = Append(@, [ path |-> folderPath, id |-> savedId,
                                                       embedding |-> folderEmbedding ]) ]
  /\ pc' = "full_walk"
  /\ UNCHANGED << fsVars, chunks, spc, sjob, obs, faults, treeVars, moreVars >>

FullIndexDone ==
  /\ pc = "full_walk"
  /\ job.todo = << >>
  /\ pc' = "idle"
  /\ obs' = PassEnd(obs)
  /\ UNCHANGED << fsVars, storeVars, job, spc, sjob, faults, treeVars, moreVars >>

(* ------------------------------------------------------------------ *)
(* RouterService.searchChunks                                           *)
(* ------------------------------------------------------------------ *)
SHORTLIST_LIMIT == 25

IdleSearch == [ candidates |-> {}, candidateFileIds |-> {}, found |-> {} ]

\* steps 1: the shortlist findRelevantFiles(query, 25) returns for some query,
\* then the filter contentScore > 0, which only a file with a content embedding
\* can pass
SearchChunks ==
  /\ spc = "idle"
  /\ \E candidateFiles \in SUBSET files :
       /\ Cardinality(candidateFiles) <= MaxShortlist
       /\ Cardinality(candidateFiles) <= SHORTLIST_LIMIT
       /\ \E filesWithContent \in
               SUBSET { f \in candidateFiles : f.contentEmbedding # NullBlob } :
            IF candidateFiles = {} \/ filesWithContent = {}
            THEN /\ spc' = "idle"
                 /\ sjob' = IdleSearch
            ELSE /\ spc' = "ensure"
                 /\ sjob' = [ IdleSearch EXCEPT
                                !.candidates = filesWithContent,
                                !.candidateFileIds = { f.id : f \in filesWithContent } ]
  /\ UNCHANGED << fsVars, storeVars, pc, job, obs, faults, treeVars, moreVars >>

\* step 2: ensureChunksExist(candidateFileIds) returns before it reads the store:
\* "TEMPORARILY DISABLED: Lazy chunking blocks main thread"
EnsureChunksExist ==
  /\ spc = "ensure"
  /\ spc' = "select"
  /\ UNCHANGED << fsVars, storeVars, pc, job, sjob, obs, faults, treeVars, moreVars >>

\* step 3: the chunk rows of the candidates, joined with their file rows
ChunksOfCandidates(candidateFileIds) ==
  { c \in chunks : c.fileId \in candidateFileIds /\ \E f \in files : f.id = c.fileId }

SelectChunks ==
  /\ spc = "select"
  /\ sjob' = [ sjob EXCEPT !.found = ChunksOfCandidates(sjob.candidateFileIds) ]
  /\ spc' = "done"
  /\ UNCHANGED << fsVars, storeVars, pc, job, obs, faults, treeVars, moreVars >>

\* scoring and the return to the caller
SearchReturn ==
  /\ spc = "done"
  /\ spc' = "idle"
  /\ sjob' = IdleSearch
  /\ UNCHANGED << fsVars, storeVars, pc, job, obs, faults, treeVars, moreVars >>

(* ------------------------------------------------------------------ *)
(* The user's changes to the file tree, between passes                  *)
(* ------------------------------------------------------------------ *)
FsChanged(o) == [ o EXCEPT !.fsOps = @ + 1, !.fsDirty = TRUE ]
FsGuard == pc = "idle" /\ obs.fsOps < MaxFsOps

\* the next modification time after m
NextMtime(m) == CHOOSE n \in MtimeValues : n > m /\ \A k \in MtimeValues : k > m => n <= k

\* create a file, or modify one (its mtime moves forward)
WriteFile ==
  /\ FsGuard
  /\ \E p \in FileUniverse \ StaticFiles :
       /\ dirname(p) \in fsDirs
       /\ \E n \in MtimeValues : n > fsFiles[p]
       /\ fsFiles' = [ fsFiles EXCEPT ![p] = NextMtime(fsFiles[p]) ]
       /\ obs' = [ FsChanged(obs) EXCEPT !.rename = << >> ]
  /\ UNCHANGED << fsDirs, storeVars, pc, job, spc, sjob, faults, treeVars, moreVars >>

DeleteFile ==
  /\ FsGuard
  /\ \E p \in FileUniverse \ StaticFiles :
       /\ Exists(p)
       /\ fsFiles' = [ fsFiles EXCEPT ![p] = NoFile ]
       /\ obs' = [ FsChanged(obs) EXCEPT !.rename = << >> ]
  /\ UNCHANGED << fsDirs, storeVars, pc, job, spc, sjob, faults, treeVars, moreVars >>

\* rename within a directory: the mtime stays
RenameFile ==
  /\ FsGuard
  /\ \E p, q \in FileUniverse \ (StaticFiles \cup Unstatable) :
       /\ Exists(p) /\ ~Exists(q)
       /\ dirname(p) = dirname(q)
       /\ fsFiles' = [ fsFiles EXCEPT ![p] = NoFile, ![q] = fsFiles[p] ]
       /\ obs' = [ FsChanged(obs) EXCEPT !.rename = << p, q >> ]
  /\ UNCHANGED << fsDirs, storeVars, pc, job, spc, sjob, faults, treeVars, moreVars >>

MakeDir ==
  /\ FsGuard
  /\ \E d \in DirUniverse \ StaticDirs :
       /\ d \notin fsDirs /\ dirname(d) \in fsDirs
       /\ fsDirs' = fsDirs \cup { d }
       /\ obs' = [ FsChanged(obs) EXCEPT !.rename = << >> ]
  /\ UNCHANGED << fsFiles, storeVars, pc, job, spc, sjob, faults, treeVars, moreVars >>

\* rm -r
RemoveDir ==
  /\ FsGuard
  /\ \E d \in DirUniverse \ StaticDirs :
       /\ d \in fsDirs
       /\ fsDirs' = fsDirs \ { d }
       /\ fsFiles' = [ p \in FileUniverse |->
                         IF dirname(p) = d THEN NoFile ELSE fsFiles[p] ]
       /\ obs' = [ FsChanged(obs) EXCEPT !.rename = << >> ]
  /\ UNCHANGED << storeVars, pc, job, spc, sjob, faults, treeVars, moreVars >>

(* ------------------------------------------------------------------ *)
(* Specification                                                        *)
(* ------------------------------------------------------------------ *)
NoFaults == [ readdir |-> {}, embed |-> {} ]
NoTreeOp ==
  [ op |-> "none", domain |-> "", given |-> << >>, content |-> "", leaf |-> 0,
    hadRoot |-> FALSE, count |-> 0, preNodes |-> {}, preItems |-> {} ]
\* no splitIntoChunks call yet
NoChunking ==
  [ at |-> "idle", content |-> [ len |-> 0, kind |-> "letters" ], position |-> 0,
    previous |-> -1, chunkCount |-> 0, rawChunks |-> << >>, chunks |-> << >>,
    turn |-> 0 ]

\* new EmbeddingService(): embedder = null, initPromise = null, nobody calling
NoEmbedder ==
  [ embedder |-> "null", initPromise |-> "null", loads |-> 0, calls |-> << >> ]

EmptyKnowledge ==
  /\ knowledgeNodes = {} /\ knowledgeItems = {}
  /\ nextNodeId = 1 /\ nextItemId = 1
  /\ treeClock = 1 /\ treeOp = NoTreeOp
  /\ chunking = NoChunking
  /\ queryLog = << >>
  /\ treeCalls = << >>
  /\ embedService = NoEmbedder

StaticTree == [ p \in FileUniverse |-> IF p \in StaticFiles THEN 1000 ELSE NoFile ]
PopulatedTree ==
  [ p \in FileUniverse |->
      IF p \in StaticFiles \cup { F2, G2 } THEN 1000
      ELSE IF p \in { F1, G1 } THEN 1500
      ELSE NoFile ]
InitTrees == { StaticTree, PopulatedTree }

Init ==
  /\ fsDirs = DirUniverse
  /\ fsFiles \in InitTrees
  /\ folders = {} /\ files = {} /\ chunks = {}
  /\ nextFolderId = 1 /\ nextFileId = 1
  /\ pc = "idle" /\ job = IdleJob
  /\ spc = "idle" /\ sjob = IdleSearch
  /\ obs = [ passes |-> 0, fsOps |-> 0, fsDirty |-> FALSE,
             clean |-> FALSE, running |-> "none", lastKind |-> "none",
             rename |-> << >>,
             pre |-> [ folders |-> {}, files |-> {}, chunks |-> {} ],
             preFs |-> fsFiles ]
  /\ faults = NoFaults
  /\ EmptyKnowledge

Next ==
  \/ IndexFromRoot
  \/ IncDeleteChunks \/ IncDeleteFile \/ IncDeletesDone
  \/ IndexFilesBatch \/ IncIndexDone
  \/ UpdateFolderEmbeddings \/ IncrementalDone
  \/ FullDeleteChunks \/ FullDeleteFiles \/ FullDeleteFolders
  \/ IndexFolderRecursive \/ FullIndexDone
  \/ SearchChunks \/ EnsureChunksExist \/ SelectChunks \/ SearchReturn
  \/ WriteFile \/ DeleteFile \/ RenameFile \/ MakeDir \/ RemoveDir

Spec == Init /\ [][Next]_vars

(* ------------------------------------------------------------------ *)
(* Vocabulary of the claims                                             *)
(* ------------------------------------------------------------------ *)
PassComplete == pc = "idle" /\ obs.passes > 0
\* the tree is as the last completed pass saw it
TreeAsIndexed == PassComplete /\ ~obs.fsDirty

\* a file the indexer is meant to hold: in the tree, not a dotfile or lock file,
\* every directory above it present, none of them skipped, within the depth limit
Indexable(p) ==
  /\ Exists(p)
  /\ ~StartsWithDot(basename(p)) /\ ~StartsWithTildeDollar(basename(p))
  /\ \A k \in 1..(Len(p) - 1) : SubSeq(p, 1, k) \in fsDirs /\ ~Skipped(p[k])
  /\ (Len(p) - 1) - Len(Root) <= MAX_DEPTH
IndexableFiles == { p \in FileUniverse : Indexable(p) }

RowsAt(p) == { f \in files : f.path = p }
ChunkRowsOf(cs, id) == { c \in cs : c.fileId = id }
DirectFiles(folderPath) == SortById({ f \in files : dirname(f.path) = folderPath })
DirectFolders(folderPath) == SortById({ f \in folders : dirname(f.path) = folderPath })
ChangedPaths == Range(job.toAdd) \cup Range(job.toUpdate) \cup Range(job.toRemove)
ChangeCount == Len(job.toAdd) + Len(job.toUpdate) + Len(job.toRemove)

\* mean-pool of the folder's direct files only
PoolOfFiles(folderPath) == serializeEmbedding(meanPool(FileVectors(DirectFiles(folderPath))))
\* mean-pool of the folder's direct files and its direct child folders' stored vectors
PoolOfFilesAndFolders(folderPath) ==
  LET subs == SelectSeq(DirectFolders(folderPath), LAMBDA f : f.embedding # NullBlob)
  IN serializeEmbedding(meanPool(
       FileVectors(DirectFiles(folderPath))
       \o [ i \in 1..Len(subs) |-> deserializeEmbedding(subs[i].embedding) ]))

(* ------------------------------------------------------------------ *)
(* C1                                                                   *)
(* ------------------------------------------------------------------ *)
\* C1: a pass that starts after a completed pass with the file tree unchanged in
\* between detects no added, updated or removed path and leaves every folder, file
\* and chunk row as it was.
C1_SecondRunChangesNothing ==
  (pc = "idle" /\ obs.passes >= 2 /\ obs.clean)
    => /\ obs.lastKind = "nochange"
       /\ ChangeCount = 0
       /\ Store = obs.pre

(* ------------------------------------------------------------------ *)
(* C2                                                                   *)
(* ------------------------------------------------------------------ *)
\* C2: after an incremental pass, every folder that contained an added, updated or
\* removed path stores the normalized mean of the vectors of its current direct
\* files (content embedding when present, filename embedding otherwise).
C2_AffectedFoldersRecomputed ==
  (pc = "idle" /\ obs.lastKind = "incremental")
    => \A p \in ChangedPaths : \A f \in folders :
         f.path = dirname(p) => f.embedding = PoolOfFiles(f.path)

(* ------------------------------------------------------------------ *)
(* C3                                                                   *)
(* ------------------------------------------------------------------ *)
\* C3: after a full index, every folder row stores the normalized mean-pool of one
\* vector per direct file (content embedding, else filename embedding) and the
\* stored vector of each indexed direct child folder; each child folder row was
\* inserted before its parent's row.
C3_FullIndexPoolsFilesAndChildFolders ==
  (TreeAsIndexed /\ obs.lastKind = "full")
    => \A f \in folders :
         /\ f.embedding = PoolOfFilesAndFolders(f.path)
         /\ Len(FileVectors(DirectFiles(f.path))) = Len(FileEntries(f.path))
         /\ \A c \in Range(DirectFolders(f.path)) : c.id < f.id /\ c.parentId = f.id

\* a full index has completed over a folder that holds files and an indexed child
\* folder that holds files itself
C3_Witness ==
  /\ TreeAsIndexed /\ obs.lastKind = "full"
  /\ \E f \in folders : \E c \in folders :
       /\ dirname(c.path) = f.path
       /\ DirectFiles(f.path) # << >> /\ DirectFiles(c.path) # << >>

(* ------------------------------------------------------------------ *)
(* C4                                                                   *)
(* ------------------------------------------------------------------ *)
RenamedSinceIndexed ==
  /\ obs.rename # << >>
  /\ \E f \in obs.pre.files : f.path = obs.rename[1]

\* C4: when a file was renamed before the pass that just completed, no file row is
\* left at the old path, one is at the new path, and the owning folder's vector is
\* a pool over its current entries (the direct files, with or without the child
\* folders), whichever of the incremental and the full path the pass took.
C4_RenameReindexed ==
  (TreeAsIndexed /\ RenamedSinceIndexed /\ obs.lastKind \in { "incremental", "full" })
    => /\ RowsAt(obs.rename[1]) = {}
       /\ Cardinality(RowsAt(obs.rename[2])) = 1
       /\ \A f \in folders :
            f.path = dirname(obs.rename[2])
              => f.embedding \in { PoolOfFiles(f.path), PoolOfFilesAndFolders(f.path) }

(* ------------------------------------------------------------------ *)
(* C5                                                                   *)
(* ------------------------------------------------------------------ *)
\* C5: after any completed pass, the stored file paths are exactly the indexable
\* files of the tree, one row each, and no chunk row is left for a file without a
\* row.
C5_StoredFilesAreTheIndexableFiles ==
  (TreeAsIndexed /\ obs.lastKind # "none")
    => /\ StoredPaths = IndexableFiles
       /\ \A p \in StoredPaths : Cardinality(RowsAt(p)) = 1
       /\ \A c \in chunks : \E f \in files : f.id = c.fileId

(* ------------------------------------------------------------------ *)
(* C6                                                                   *)
(* ------------------------------------------------------------------ *)
\* C6: a pass that found folders in the store reindexes in full exactly when the
\* detected changes number more than half of the stored files; up to and including
\* exactly half (and at least one) it updates incrementally; with none it writes
\* nothing to the store.
C6_FullReindexOnlyAboveHalf ==
  (job.kind # "none" /\ obs.pre.folders # {})
    => LET n == Cardinality(obs.pre.files)
       IN /\ (job.kind = "full") <=> (2 * ChangeCount > n)
          /\ (job.kind = "incremental") <=> (ChangeCount > 0 /\ 2 * ChangeCount <= n)
          /\ (ChangeCount = 0) =>
                (job.kind = "nochange" /\ pc = "idle" /\ Store = obs.pre)

\* an incremental pass over changes that number exactly half of the stored files
C6_Witness ==
  /\ job.kind = "incremental" /\ obs.pre.folders # {}
  /\ 2 * ChangeCount = Cardinality(obs.pre.files)

(* ------------------------------------------------------------------ *)
(* C7                                                                   *)
(* ------------------------------------------------------------------ *)
\* C7: once searchChunks is past ensureChunksExist, every shortlisted file with
\* content (all stored with chunk count 0) has chunk rows, and its chunk count is
\* the number of them.
C7_CandidatesGetChunks ==
  (spc \in { "select", "done" })
    => \A f \in files :
         f.id \in sjob.candidateFileIds
           => /\ ChunkRowsOf(chunks, f.id) # {}
              /\ f.chunkCount = Cardinality(ChunkRowsOf(chunks, f.id))

(* ------------------------------------------------------------------ *)
(* C8                                                                   *)
(* ------------------------------------------------------------------ *)
\* C8: every stored file row has chunk count 0 and no chunk row referencing it,
\* and a step that adds a chunk row is a step of a chunk search, never of an
\* indexing pass.
C8_IndexingNeverMaterializesChunks ==
  /\ [](\A f \in files : f.chunkCount = 0 /\ ChunkRowsOf(chunks, f.id) = {})
  /\ [][(chunks' \ chunks # {}) => (spc' # spc /\ pc' = pc)]_vars

\* an incremental pass has completed and wrote a file row
C8_Witness ==
  /\ pc = "idle" /\ obs.lastKind = "incremental"
  /\ \E p \in Range(job.toAdd) \cup Range(job.toUpdate) : RowsAt(p) # {}

FOLDER_THRESHOLD == 5
MIN_RESULT_SCORE == 25
FILENAME_WEIGHT == 35
CONTENT_WEIGHT == 35
KEYWORD_WEIGHT == 30
NO_CONTENT_FILENAME_WEIGHT == 60
NO_CONTENT_KEYWORD_WEIGHT == 40
BEAM_WIDTH == 3
BEAM_TOLERANCE == 15
ROUTER_MAX_DEPTH == 20
PER_FOLDER_LIMIT == 3
FILTERED_LIMIT == 5
Hundred == 100

\* String.prototype.toLowerCase, on the letters the model's texts use
UpperCase == "ABCDEFGHIJKLMNOPQRSTUVWXYZ"
LowerCaseLetters == "abcdefghijklmnopqrstuvwxyz"
WordDigits == "0123456789_"
CharAt(s, i) == SubSeq(s, i, i)
IndexIn(alphabet, c) ==
  LET hits == { i \in 1..Len(alphabet) : CharAt(alphabet, i) = c }
  IN IF hits = {} THEN 0 ELSE CHOOSE i \in hits : TRUE
LowerChar(c) ==
  IF IndexIn(UpperCase, c) # 0 THEN CharAt(LowerCaseLetters, IndexIn(UpperCase, c)) ELSE c
RECURSIVE toLowerCase(_)
toLowerCase(s) ==
  IF Len(s) = 0 THEN "" ELSE LowerChar(CharAt(s, 1)) \o toLowerCase(SubSeq(s, 2, Len(s)))

\* \w and \s of the regular expressions
IsWordChar(c) ==
  IndexIn(UpperCase, c) # 0 \/ IndexIn(LowerCaseLetters, c) # 0 \/ IndexIn(WordDigits, c) # 0
IsSpace(c) == c = " "

\* replace(/[^\w\s]/g, '')
RECURSIVE RemovePunctuation(_)
RemovePunctuation(s) ==
  IF Len(s) = 0 THEN ""
  ELSE LET c == CharAt(s, 1)
           rest == RemovePunctuation(SubSeq(s, 2, Len(s)))
       IN IF IsWordChar(c) \/ IsSpace(c) THEN c \o rest ELSE rest

\* split(/\s+/): the maximal runs between white space; the empty strings split
\* yields at the ends of the text are dropped by the length filter that follows
RECURSIVE SplitWords(_, _)
SplitWords(s, word) ==
  IF Len(s) = 0 THEN (IF word = "" THEN << >> ELSE << word >>)
  ELSE LET c == CharAt(s, 1)
           rest == SubSeq(s, 2, Len(s))
       IN IF IsSpace(c)
          THEN (IF word = "" THEN << >> ELSE << word >>) \o SplitWords(rest, "")
          ELSE SplitWords(rest, word \o c)

stopWords ==
  { "the", "a", "an", "is", "are", "was", "were", "be", "been", "being",
    "have", "has", "had", "do", "does", "did", "will", "would", "could",
    "should", "may", "might", "can", "my", "your", "our", "their", "its",
    "for", "to", "of", "in", "on", "at", "by", "with", "from", "and", "or",
    "find", "open", "show", "get", "please", "you", "me", "i" }

extractKeywords(query) ==
  SelectSeq(SplitWords(RemovePunctuation(toLowerCase(query)), ""),
            LAMBDA word : Len(word) >= 2 /\ word \notin stopWords)

\* String.prototype.includes
includes(s, sub) ==
  \E i \in 1..(Len(s) - Len(sub) + 1) : SubSeq(s, i, i + Len(sub) - 1) = sub

\* the path column as the string the store holds
RECURSIVE PathString(_)
PathString(p) ==
  IF Len(p) = 0 THEN ""
  ELSE IF Len(p) = 1 THEN p[1]
  ELSE PathString(SubSeq(p, 1, Len(p) - 1)) \o "/" \o p[Len(p)]

\* calculateKeywordScore is matchCount / keywords.length, 0 for no keywords:
\* KeywordMatches over KeywordDen
KeywordDen(keywords) == IF Len(keywords) = 0 THEN 1 ELSE Len(keywords)
KeywordMatches(filePath, keywords) ==
  LET lowerPath == toLowerCase(PathString(filePath))
  IN Cardinality({ i \in 1..Len(keywords) : includes(lowerPath, keywords[i]) })
calculateKeywordScore(filePath, keywords) ==
  IF Len(keywords) = 0 THEN 0 ELSE KeywordMatches(filePath, keywords)

\* the query vector, held as its dot product with each stored vector
cosineSimilarity(queryVec, blob) == queryVec[deserializeEmbedding(blob)]

\* the three-part weighting for every row, content embedding or not
HybridScore_AlwaysThreeParts(f, queryVec, keywords) ==
  FILENAME_WEIGHT * cosineSimilarity(queryVec, f.embedding) * KeywordDen(keywords)
  + (IF f.contentEmbedding # NullBlob
     THEN CONTENT_WEIGHT * cosineSimilarity(queryVec, f.contentEmbedding) * KeywordDen(keywords)
     ELSE 0)
  + KEYWORD_WEIGHT * Hundred * calculateKeywordScore(f.path, keywords)

\* the hybrid score of one semantic_files row, in 1/(10000 KeywordDen)
HybridScore(f, queryVec, keywords) ==
  LET k == KeywordDen(keywords)
      filenameScore == IF f.embedding # NullBlob THEN cosineSimilarity(queryVec, f.embedding) ELSE 0
      contentScore == IF f.contentEmbedding # NullBlob
                      THEN cosineSimilarity(queryVec, f.contentEmbedding) ELSE 0
      keywordScore == calculateKeywordScore(f.path, keywords)
  IN IF f.contentEmbedding # NullBlob
     THEN FILENAME_WEIGHT * filenameScore * k + CONTENT_WEIGHT * contentScore * k
          + KEYWORD_WEIGHT * Hundred * keywordScore
     ELSE NO_CONTENT_FILENAME_WEIGHT * filenameScore * k
          + NO_CONTENT_KEYWORD_WEIGHT * Hundred * keywordScore

\* a threshold given in hundredths, in the unit of the scores
InScoreUnit(hundredths, keywords) == hundredths * Hundred * KeywordDen(keywords)

\* Array.prototype.sort((a, b) => b.score - a.score): stable, descending
RECURSIVE SortByScore(_)
SortByScore(s) ==
  IF Len(s) = 0 THEN << >>
  ELSE LET best == CHOOSE i \in 1..Len(s) :
                     /\ \A j \in 1..Len(s) : s[j].score <= s[i].score
                     /\ \A j \in 1..(i - 1) : s[j].score < s[i].score
       IN << s[best] >> \o SortByScore(SubSeq(s, 1, best - 1) \o SubSeq(s, best + 1, Len(s)))

Slice_NoLimit(s, n) == s

Slice(s, n) == SubSeq(s, 1, IF n < Len(s) THEN n ELSE Len(s))

\* searchFilesInFolder: the three best files of one folder
searchFilesInFolder(queryVec, folderId, level, keywords) ==
  LET rows == SortById({ f \in files : f.folderId = folderId })
      scored == [ i \in 1..Len(rows) |->
                    [ id |-> rows[i].id, path |-> rows[i].path,
                      score |-> HybridScore(rows[i], queryVec, keywords),
                      foundAtLevel |-> level ] ]
  IN Slice(SortByScore(scored), PER_FOLDER_LIMIT)

\* the elements of s at the indices in keep, in order
RECURSIVE Subsequence(_, _)
Subsequence(s, keep) ==
  IF Len(s) = 0 THEN << >>
  ELSE Subsequence(SubSeq(s, 1, Len(s) - 1), keep)
       \o (IF Len(s) \in keep THEN << s[Len(s)] >> ELSE << >>)

\* the score of a child folder, in the unit of the hybrid scores
FolderScore(folder, queryVec, keywords) ==
  LET semanticScore == IF folder.embedding # NullBlob
                       THEN cosineSimilarity(queryVec, folder.embedding) ELSE 0
  IN (FILENAME_WEIGHT + CONTENT_WEIGHT) * semanticScore * KeywordDen(keywords)
     + KEYWORD_WEIGHT * Hundred * calculateKeywordScore(folder.path, keywords)

ScoredChildren(folderId, queryVec, keywords) ==
  LET children == SortById({ f \in folders : f.parentId = folderId })
  IN SortByScore([ i \in 1..Len(children) |->
                     [ id |-> children[i].id,
                       score |-> FolderScore(children[i], queryVec, keywords) ] ])

\* the top K alone
SelectedFolders_TopK(scoredChildren, keywords) ==
  Subsequence(scoredChildren, { idx \in 1..Len(scoredChildren) : idx <= BEAM_WIDTH })

\* "top K and any within tolerance of best"
SelectedFolders(scoredChildren, keywords) ==
  Subsequence(scoredChildren,
              { idx \in 1..Len(scoredChildren) :
                  \/ idx <= BEAM_WIDTH
                  \/ scoredChildren[idx].score
                       >= scoredChildren[1].score - InScoreUnit(BEAM_TOLERANCE, keywords) })

\* the threshold filter without the fallback to the best folder
ValidFolders_ThresholdOnly(scoredChildren, keywords) ==
  SelectSeq(SelectedFolders(scoredChildren, keywords),
            LAMBDA f : \/ f.score >= InScoreUnit(FOLDER_THRESHOLD, keywords)
                       \/ Len(scoredChildren) = 1)

\* "Filter by threshold, but ALWAYS include at least the best folder"
ValidFolders(scoredChildren, keywords) ==
  LET selectedFolders == SelectedFolders(scoredChildren, keywords)
      validFolders ==
        SelectSeq(selectedFolders,
                  LAMBDA f : \/ f.score >= InScoreUnit(FOLDER_THRESHOLD, keywords)
                             \/ Len(scoredChildren) = 1)
  IN IF Len(validFolders) = 0 /\ Len(scoredChildren) > 0
     THEN << scoredChildren[1] >>
     ELSE validFolders

\* the while loop over the beam; acc collects the candidates and, for the
\* claims, what each expansion scored and pushed
RECURSIVE BeamSearch(_, _, _, _)
BeamSearch(beam, queryVec, keywords, acc) ==
  IF Len(beam) = 0 THEN acc
  ELSE LET currentNode == Head(beam)
       IN IF currentNode.depth > ROUTER_MAX_DEPTH
          THEN BeamSearch(Tail(beam), queryVec, keywords, acc)
          ELSE LET filesInFolder == searchFilesInFolder(queryVec, currentNode.folderId,
                                                        currentNode.depth, keywords)
                   scoredChildren == ScoredChildren(currentNode.folderId, queryVec, keywords)
                   validFolders == IF Len(scoredChildren) = 0 THEN << >>
                                   ELSE ValidFolders(scoredChildren, keywords)
                   pushed == [ i \in 1..Len(validFolders) |->
                                 [ folderId |-> validFolders[i].id,
                                   depth |-> currentNode.depth + 1 ] ]
               IN BeamSearch(Tail(beam) \o pushed, queryVec, keywords,
                             [ allCandidates |-> acc.allCandidates \o filesInFolder,
                               expansions |-> Append(acc.expansions,
                                    [ folderId |-> currentNode.folderId,
                                      depth |-> currentNode.depth,
                                      scoredChildren |-> scoredChildren,
                                      pushed |-> validFolders ]) ])

\* "De-duplicate by path": the first entry of each path
UniqueByPath(s) ==
  Subsequence(s, { i \in 1..Len(s) : \A j \in 1..(i - 1) : s[j].path # s[i].path })

RootBeam ==
  LET rootFolders == SortById({ f \in folders : f.parentId = 0 })
  IN [ i \in 1..Len(rootFolders) |-> [ folderId |-> rootFolders[i].id, depth |-> 0 ] ]

\* findRelevantFiles(query, limit) with the query vector the embedder returns
findRelevantFiles(query, queryVec, limit) ==
  LET keywords == extractKeywords(query)
      walk == BeamSearch(RootBeam, queryVec, keywords,
                         [ allCandidates |-> << >>, expansions |-> << >> ])
      uniqueCandidates == UniqueByPath(SortByScore(walk.allCandidates))
      relevantResults ==
        SelectSeq(uniqueCandidates,
                  LAMBDA c : c.score >= InScoreUnit(MIN_RESULT_SCORE, keywords))
  IN [ keywords |-> keywords,
       expansions |-> walk.expansions,
       allCandidates |-> walk.allCandidates,
       result |-> Slice(relevantResults, limit) ]

\* findFilesWithFilters -------------------------------------------------
FILE_TYPE_EXTENSIONS ==
  [ pdf |-> { "pdf" },
    image |-> { "jpg", "jpeg", "png", "gif", "webp", "heic", "svg", "bmp", "tiff" },
    document |-> { "doc", "docx", "txt", "rtf", "odt", "pages", "md", "pdf" },
    code |-> { "js", "ts", "tsx", "jsx", "py", "java", "c", "cpp", "h", "go", "rs", "rb",
               "php", "swift", "kt", "sh", "bash", "zsh", "json", "yaml", "yml", "toml",
               "xml", "html", "css", "scss", "sql" },
    video |-> { "mp4", "mov", "avi", "mkv", "webm", "wmv", "m4v" },
    audio |-> { "mp3", "wav", "aac", "m4a", "flac", "ogg", "wma" },
    archive |-> { "zip", "tar", "gz", "rar", "7z", "bz2" } ]

\* paths are held relative to the home directory, so join(homedir(), x) is x
LOCATION_PATHS ==
  [ documents |-> "Documents", downloads |-> "Downloads", desktop |-> "Desktop",
    photos |-> "Pictures", projects |-> "Desktop/Home/Projects", home |-> "" ]

\* DATE_RANGE_MS in seconds, the unit of the indexedAt column
SecondsPerDay == 86400
DATE_RANGE_MS ==
  [ today |-> SecondsPerDay, week |-> 7 * SecondsPerDay,
    month |-> 30 * SecondsPerDay, year |-> 365 * SecondsPerDay ]

startsWith(s, prefix) == Len(prefix) <= Len(s) /\ SubSeq(s, 1, Len(prefix)) = prefix

\* the three filters as the code derives them: a set of extensions, a path
\* prefix and a cutoff, each << >> when the filter is not applied
AllowedExtensions(filters) ==
  IF filters.file_types # { } /\ "any" \notin filters.file_types
  THEN << UNION { FILE_TYPE_EXTENSIONS[t] : t \in filters.file_types \cap DOMAIN FILE_TYPE_EXTENSIONS } >>
  ELSE << >>
LocationPath(filters) ==
  IF filters.location \notin { "", "anywhere" } /\ filters.location \in DOMAIN LOCATION_PATHS
     /\ LOCATION_PATHS[filters.location] # ""
  THEN << LOCATION_PATHS[filters.location] >>
  ELSE << >>
DateCutoff(filters, now) ==
  IF filters.date_range \notin { "", "anytime" } /\ filters.date_range \in DOMAIN DATE_RANGE_MS
  THEN << now - DATE_RANGE_MS[filters.date_range] >>
  ELSE << >>

PreFilter(allowedExtensions, locationPath, dateCutoff) ==
  { f \in files :
      /\ (allowedExtensions # << >> /\ allowedExtensions[1] # {})
           => toLowerCase(f.extension) \in allowedExtensions[1]
      /\ locationPath # << >> => startsWith(PathString(f.path), locationPath[1])
      /\ dateCutoff # << >> => f.indexedAt >= dateCutoff[1] }

findFilesWithFilters(filters, queryVec, now) ==
  LET allowedExtensions == AllowedExtensions(filters)
      locationPath == LocationPath(filters)
      dateCutoff == DateCutoff(filters, now)
      filtered == PreFilter(allowedExtensions, locationPath, dateCutoff)
      \* "Step 2: If no files after filtering, try relaxing filters"
      allFiles == IF filtered = {} /\ dateCutoff # << >>
                  THEN PreFilter(allowedExtensions, locationPath, << >>)
                  ELSE filtered
      keywords == extractKeywords(filters.query)
      rows == SortById(allFiles)
      scored == SortByScore([ i \in 1..Len(rows) |->
                  [ id |-> rows[i].id, path |-> rows[i].path,
                    score |-> HybridScore(rows[i], queryVec, keywords),
                    foundAtLevel |-> 0 ] ])
  IN [ keywords |-> keywords,
       filtered |-> filtered,
       allFiles |-> allFiles,
       result |-> IF allFiles = {} THEN << >>
                  ELSE Slice(SelectSeq(scored,
                                LAMBDA r : r.score >= InScoreUnit(MIN_RESULT_SCORE, keywords)),
                             FILTERED_LIMIT) ]

\* The store the router is run on ----------------------------------------
\* what a full index of Desktop/{r.png, work/{x.txt, notes/n.png}, pics/z.png,
\* misc/c.png, old/d.png} stores, x.txt re-indexed an hour ago, the rest ten days ago
RouterNow == 40000000
RouterOld == RouterNow - 10 * SecondsPerDay
RouterRecent == RouterNow - 3600

DirWork == << "Desktop", "work" >>
DirNotes == << "Desktop", "work", "notes" >>
DirPics == << "Desktop", "pics" >>
DirMisc == << "Desktop", "misc" >>
DirOld == << "Desktop", "old" >>

RouterFile(id, folderId, p, ext, signature, indexedAt) ==
  [ id |-> id, folderId |-> folderId, path |-> p, name |-> basename(p),
    embedding |-> serializeEmbedding(embed(relativePath(dirname(p), basename(p)))),
    contentSignature |-> signature,
    contentEmbedding |-> IF signature = << >> THEN NullBlob
                         ELSE serializeEmbedding(embed(<< "sig", signature[1] >>)),
    extension |-> ext, indexedAt |-> indexedAt,
    lastModified |-> 1, chunkCount |-> 0 ]

RouterFiles ==
  { RouterFile(1, 1, Append(DirNotes, "n.png"), "png", << >>, RouterOld),
    RouterFile(2, 2, Append(DirWork, "x.txt"), "txt", << "v1000" >>, RouterRecent),
    RouterFile(3, 3, Append(DirPics, "z.png"), "png", << >>, RouterOld),
    RouterFile(4, 4, Append(DirMisc, "c.png"), "png", << >>, RouterOld),
    RouterFile(5, 5, Append(DirOld, "d.png"), "png", << >>, RouterOld),
    RouterFile(6, 6, Append(Root, "r.png"), "png", << >>, RouterOld) }

RouterFileVec(id) ==
  LET f == CHOOSE r \in RouterFiles : r.id = id
  IN deserializeEmbedding(IF f.contentEmbedding # NullBlob THEN f.contentEmbedding
                          ELSE f.embedding)

RouterFolder(id, parentId, p, embedding, fileCount) ==
  [ id |-> id, path |-> p, parentId |-> parentId, name |-> basename(p),
    depth |-> Len(p) - Len(Root), embedding |-> serializeEmbedding(embedding),
    fileCount |-> fileCount ]

VecNotes == meanPool(<< RouterFileVec(1) >>)
VecWork == meanPool(<< RouterFileVec(2), VecNotes >>)
VecPics == meanPool(<< RouterFileVec(3) >>)
VecMisc == meanPool(<< RouterFileVec(4) >>)
VecOld == meanPool(<< RouterFileVec(5) >>)
VecRoot == meanPool(<< RouterFileVec(6), VecWork, VecPics, VecMisc, VecOld >>)

RouterFolders ==
  { RouterFolder(1, 2, DirNotes, VecNotes, 1),
    RouterFolder(2, 6, DirWork, VecWork, 1),
    RouterFolder(3, 6, DirPics, VecPics, 1),
    RouterFolder(4, 6, DirMisc, VecMisc, 1),
    RouterFolder(5, 6, DirOld, VecOld, 1),
    RouterFolder(6, 0, Root, VecRoot, 1) }

\* The queries -------------------------------------------------------------
FolderSims == { 5, 10, 30, 50 }
FileSims == { 10, 50 }
XNameVec == embed(relativePath(DirWork, "x.txt"))
RootFileVec == RouterFileVec(6)

\* the dot products of a query vector with the stored vectors
QueryVecs ==
  { (VecWork :> a) @@ (VecPics :> b) @@ (VecMisc :> c) @@ (VecOld :> d)
    @@ (VecNotes :> n) @@ (XNameVec :> x) @@ (RouterFileVec(2) :> y)
    @@ (RootFileVec :> 30) @@ (VecRoot :> 30) :
      a \in FolderSims, b \in FolderSims, c \in FolderSims, d \in FolderSims,
      n \in { 5, 50 }, x \in FileSims, y \in FileSims }
FilterQueryVecs ==
  { q \in QueryVecs : q[VecWork] = 50 /\ q[VecMisc] = 50 /\ q[VecOld] = 50 }

QueryTexts == { "Find PICS!", "photo of work", "the a" }
Limits == { 1, 10 }
FilterChoices ==
  [ query : { "Find PICS!", "the a" },
    file_types : { { }, { "image" }, { "video" }, { "document", "audio" } },
    location : { "", "desktop", "documents" },
    date_range : { "", "today", "year" } ]

\* The calls -----------------------------------------------------------------
FindRelevantFiles ==
  /\ spc = "idle"
  /\ \E query \in QueryTexts : \E queryVec \in QueryVecs : \E limit \in Limits :
       sjob' = [ op |-> "findRelevantFiles", query |-> query, queryVec |-> queryVec,
                 limit |-> limit, out |-> findRelevantFiles(query, queryVec, limit) ]
  /\ spc' = "found"
  /\ UNCHANGED << fsVars, storeVars, pc, job, obs, faults, treeVars, moreVars >>

FindFilesWithFilters ==
  /\ spc = "idle"
  /\ \E filters \in FilterChoices : \E queryVec \in FilterQueryVecs :
       sjob' = [ op |-> "findFilesWithFilters", query |-> filters.query,
                 queryVec |-> queryVec, filters |-> filters,
                 out |-> findFilesWithFilters(filters, queryVec, RouterNow) ]
  /\ spc' = "filtered"
  /\ UNCHANGED << fsVars, storeVars, pc, job, obs, faults, treeVars, moreVars >>

RouterReturn ==
  /\ spc \in { "found", "filtered" }
  /\ spc' = "idle"
  /\ sjob' = IdleSearch
  /\ UNCHANGED << fsVars, storeVars, pc, job, obs, faults, treeVars, moreVars >>

RouterInit ==
  /\ fsDirs = DirUniverse /\ fsFiles = StaticTree
  /\ folders = RouterFolders /\ files = RouterFiles /\ chunks = {}
  /\ nextFolderId = 7 /\ nextFileId = 7
  /\ pc = "idle" /\ job = IdleJob
  /\ spc = "idle" /\ sjob = IdleSearch
  /\ obs = [ passes |-> 1, fsOps |-> 0, fsDirty |-> FALSE,
             clean |-> FALSE, running |-> "none", lastKind |-> "full",
             rename |-> << >>,
             pre |-> [ folders |-> {}, files |-> {}, chunks |-> {} ],
             preFs |-> fsFiles ]
  /\ faults = NoFaults
  /\ EmptyKnowledge

RouterNext == FindRelevantFiles \/ FindFilesWithFilters \/ RouterReturn

RouterSpec == RouterInit /\ [][RouterNext]_vars

(* ------------------------------------------------------------------ *)
(* Vocabulary of the router claims                                      *)
(* ------------------------------------------------------------------ *)
Expansions == IF spc = "found" THEN Range(sjob.out.expansions) ELSE {}
Tolerance == InScoreUnit(BEAM_TOLERANCE, sjob.out.keywords)
Threshold == InScoreUnit(FOLDER_THRESHOLD, sjob.out.keywords)
Floor == InScoreUnit(MIN_RESULT_SCORE, sjob.out.keywords)
RankOf(e, c) == CHOOSE i \in 1..Len(e.scoredChildren) : e.scoredChildren[i] = c
Distance(a, b) == IF a >= b THEN a - b ELSE b - a

(* ------------------------------------------------------------------ *)
(* C11                                                                  *)
(* ------------------------------------------------------------------ *)
\* C11 as stated: two children of an expanded folder whose scores are within the
\* tolerance of each other are both pushed onto the beam.
C11_NearTiedSiblingsBothPushed ==
  \A e \in Expansions : \A c \in Range(e.scoredChildren) : \A d \in Range(e.scoredChildren) :
    (c # d /\ Distance(c.score, d.score) <= Tolerance)
      => (c \in Range(e.pushed) /\ d \in Range(e.pushed))

\* C11: a child of an expanded folder whose score is within the tolerance of the
\* best child's score, and at least the folder threshold, is pushed onto the beam
\* whatever its rank.
C11_WithinToleranceOfBestPushed ==
  \A e \in Expansions : \A c \in Range(e.scoredChildren) :
    (/\ c.score >= e.scoredChildren[1].score - Tolerance
     /\ c.score >= Threshold)
      => c \in Range(e.pushed)

\* a child ranked below the beam width was pushed
C11_Witness ==
  \E e \in Expansions : \E c \in Range(e.pushed) :
    /\ RankOf(e, c) > BEAM_WIDTH
    /\ c.score < e.scoredChildren[1].score

(* ------------------------------------------------------------------ *)
(* C12                                                                  *)
(* ------------------------------------------------------------------ *)
\* C12: every expansion of a folder with child folders pushes at least one child,
\* the best-scoring one included, and every pushed child is expanded in turn.
C12_BestChildAlwaysExplored ==
  \A e \in Expansions :
    Len(e.scoredChildren) > 0
      => /\ e.scoredChildren[1] \in Range(e.pushed)
         /\ \A c \in Range(e.pushed) : \E x \in Expansions : x.folderId = c.id

\* several children, none at the threshold: the best one alone was pushed
C12_Witness ==
  \E e \in Expansions :
    /\ Len(e.scoredChildren) > 1
    /\ \A c \in Range(e.scoredChildren) : c.score < Threshold
    /\ e.pushed = << e.scoredChildren[1] >>

C14_RelaxesDateThenEverything ==
  (spc = "filtered" /\ sjob.out.filtered = {})
    => LET withoutDate == PreFilter(AllowedExtensions(sjob.filters),
                                    LocationPath(sjob.filters), << >>)
       IN IF withoutDate # {} THEN sjob.out.allFiles = withoutDate
          ELSE sjob.out.allFiles = files

(* ------------------------------------------------------------------ *)
(* C15                                                                  *)
(* ------------------------------------------------------------------ *)
\* the number of keywords of the call that are substrings of the lower-cased path
KeywordHits(f) ==
  Cardinality({ i \in 1..Len(sjob.out.keywords) :
                  includes(toLowerCase(PathString(f.path)), sjob.out.keywords[i]) })
\* 10000 k times the score the rule gives file row f, k the number of keywords
RuleScore(f) ==
  LET k == Len(sjob.out.keywords)
      filenameScore == sjob.queryVec[f.embedding[1]]
  IN IF f.contentEmbedding # << >>
     THEN IF k = 0 THEN 35 * filenameScore + 35 * sjob.queryVec[f.contentEmbedding[1]]
          ELSE 35 * filenameScore * k + 35 * sjob.queryVec[f.contentEmbedding[1]] * k
               + 30 * 100 * KeywordHits(f)
     ELSE IF k = 0 THEN 60 * filenameScore
          ELSE 60 * filenameScore * k + 40 * 100 * KeywordHits(f)
ScoredEntries ==
  IF spc = "found" THEN Range(sjob.out.allCandidates)
  ELSE IF spc = "filtered" THEN Range(sjob.out.result)
  ELSE {}

RootOnlyTree ==
  [ p \in FileUniverse |->
      IF p \in StaticFiles \cup { F2 } THEN 1000
      ELSE IF p = F1 THEN 1500
      ELSE NoFile ]
\* what fails for the whole run: nothing, the listing of a/, the embedding of
\* one filename of a/, the embedding of one filename of the root
FaultChoices ==
  { NoFaults,
    [ readdir |-> { DirA }, embed |-> {} ],
    [ readdir |-> {}, embed |-> { relativePath(DirA, basename(G1)) } ],
    [ readdir |-> {}, embed |-> { relativePath(Root, basename(F3)) } ] }

FaultInit ==
  /\ \/ fsDirs = DirUniverse /\ fsFiles = PopulatedTree
     \/ fsDirs = DirUniverse \ { DirA } /\ fsFiles = RootOnlyTree
  /\ folders = {} /\ files = {} /\ chunks = {}
  /\ nextFolderId = 1 /\ nextFileId = 1
  /\ pc = "idle" /\ job = IdleJob
  /\ spc = "idle" /\ sjob = IdleSearch
  /\ obs = [ passes |-> 0, fsOps |-> 0, fsDirty |-> FALSE,
             clean |-> FALSE, running |-> "none", lastKind |-> "none",
             rename |-> << >>,
             pre |-> [ folders |-> {}, files |-> {}, chunks |-> {} ],
             preFs |-> fsFiles ]
  /\ faults \in FaultChoices
  /\ EmptyKnowledge

FaultNext ==
  \/ IndexFromRoot
  \/ IncDeleteChunks \/ IncDeleteFile \/ IncDeletesDone
  \/ IndexFilesBatch \/ IncIndexDone
  \/ UpdateFolderEmbeddings \/ IncrementalDone
  \/ FullDeleteChunks \/ FullDeleteFiles \/ FullDeleteFolders
  \/ IndexFolderRecursive \/ FullIndexDone
  \/ WriteFile \/ DeleteFile \/ MakeDir

FaultSpec == FaultInit /\ [][FaultNext]_vars

(* ------------------------------------------------------------------ *)
(* C16                                                                  *)
(* ------------------------------------------------------------------ *)
\* C16: when no pass is running, the folder row of the indexing root is the only
\* one without a parent id, and every other folder row's parent id is the id of
\* the row of the directory that contains it.
C16_ParentIdIsTheContainingFolder ==
  pc = "idle" =>
    \A f \in folders :
      IF f.path = Root THEN f.parentId = 0
      ELSE /\ f.parentId # 0
           /\ \E g \in folders : g.path = dirname(f.path) /\ g.id = f.parentId

(* ------------------------------------------------------------------ *)
(* C17                                                                  *)
(* ------------------------------------------------------------------ *)
\* a file the pass can read and embed: indexable, under directories that can be
\* listed, its own texts embeddable
Healthy(p) ==
  /\ Indexable(p)
  /\ StatOk(p)
  /\ \A k \in 1..(Len(p) - 1) : ~ReaddirThrows(SubSeq(p, 1, k))
  /\ ~EmbedThrows(relativePath(dirname(p), basename(p)))
  /\ ReadContent(p) # << >> => ~EmbedThrows(<< "sig", ReadContent(p)[1] >>)

\* C17: a pass over a tree where one directory cannot be listed or one file
\* cannot be embedded still returns normally and leaves a row for every other
\* file that can be read, in the full and in the incremental path.
C17_OneFailureDoesNotStopThePass ==
  (pc = "idle" /\ obs.passes > 0 /\ faults # NoFaults)
    => /\ obs.lastKind # "rejected"
       /\ ~obs.fsDirty => \A p \in FileUniverse : Healthy(p) => RowsAt(p) # {}

(* ------------------------------------------------------------------ *)
(* Knowledge tree: clustering                                           *)
(* ------------------------------------------------------------------ *)
L0_TARGET == 4
L1_TARGET == 7
L2_TARGET == 15
MIN_LEAF_SIZE == 10
MAX_LEAF_SIZE == 50
TREE_MAX_DEPTH == 4
MAX_ITERATIONS == 20

\* F applied to the value of v, v evaluated once
WithValue(v, F(_)) == CHOOSE r \in { F(x) : x \in { v } } : TRUE

\* a unit or pooled vector as the multiples of the unit vectors it is the
\* normalised sum of; embeddings of different texts are orthogonal
Coeffs(v) ==
  IF v.parts # EmptyBag THEN v.parts
  ELSE IF v = ZeroVec THEN EmptyBag
  ELSE SetToBag({ v })

RECURSIVE SumOver(_, _)
SumOver(f, S) ==
  IF S = {} THEN 0
  ELSE LET x == CHOOSE y \in S : TRUE IN f[x] + SumOver(f, S \ { x })

Dot(a, b) ==
  LET ca == Coeffs(a)
      cb == Coeffs(b)
      both == DOMAIN ca \cap DOMAIN cb
  IN SumOver([ x \in both |-> ca[x] * cb[x] ], both)

\* cosineSimilarity of two vectors, squared, as a fraction: (a.b)^2 / (|a|^2 |b|^2)
\* of the sums they normalise; no similarity of the model is negative
similaritySq(a, b) ==
  WithValue(<< Dot(a, b), Dot(a, a) * Dot(b, b) >>, LAMBDA d :
    [ num |-> d[1] * d[1], den |-> IF d[2] = 0 THEN 1 ELSE d[2] ])
Greater(x, y) == x.num * y.den > y.num * x.den

\* the index a loop with "if (v > best)" ends on: the first of the largest
FirstMax(values) ==
  WithValue(values, LAMBDA vs :
    CHOOSE i \in 1..Len(vs) :
      /\ \A j \in 1..(i - 1) : Greater(vs[i], vs[j])
      /\ \A j \in (i + 1)..Len(vs) : ~Greater(vs[j], vs[i]))
\* the same for "if (v < best)"
FirstMin(values) ==
  WithValue(values, LAMBDA vs :
    CHOOSE i \in 1..Len(vs) :
      /\ \A j \in 1..(i - 1) : Greater(vs[j], vs[i])
      /\ \A j \in (i + 1)..Len(vs) : ~Greater(vs[i], vs[j]))

Indices(n) == [ i \in 1..n |-> i ]
At(s, indices) == WithValue(indices, LAMBDA idx : [ j \in 1..Len(idx) |-> s[idx[j]] ])

\* Math.random() in tenths; Math.floor(Math.random() * n), counted from 1
RandomDen == 10
FirstIdx(random, n) == ((random * n) \div RandomDen) + 1

\* k-means++: the indices of the initial centroids, in the order they are picked
RECURSIVE InitCentroids(_, _, _)
InitCentroids(embeddings, k, used) ==
  IF Len(used) >= k THEN used
  ELSE WithValue(SelectSeq(Indices(Len(embeddings)), LAMBDA i : i \notin Range(used)),
         LAMBDA free :
           \* the smallest distance to a centroid is 1 - the largest similarity
           LET nearest == [ j \in 1..Len(free) |->
                              WithValue([ u \in 1..Len(used) |->
                                            similaritySq(embeddings[free[j]],
                                                         embeddings[used[u]]) ],
                                        LAMBDA sims : sims[FirstMax(sims)]) ]
               bestIdx == IF free = << >> THEN 1 ELSE free[FirstMin(nearest)]
           IN WithValue(Append(used, bestIdx),
                        LAMBDA picked : InitCentroids(embeddings, k, picked)))

\* "Assign each point to nearest centroid"
Assign(embeddings, centroids) ==
  [ i \in 1..Len(embeddings) |->
      FirstMax([ c \in 1..Len(centroids) |-> similaritySq(embeddings[i], centroids[c]) ]) ]

\* the members of a cluster without the first item
Members_WithoutFirst(assignments, c) ==
  SelectSeq(Indices(Len(assignments)), LAMBDA i : i > 1 /\ assignments[i] = c)

\* assignments.map((a, i) => (a === c ? i : -1)).filter((i) => i >= 0)
Members(assignments, c) ==
  SelectSeq(Indices(Len(assignments)), LAMBDA i : assignments[i] = c)

\* the loop over iter: assign, stop when nothing moved, recompute the centroids
RECURSIVE Iterate(_, _, _, _)
Iterate(embeddings, centroids, assignments, iter) ==
  IF iter >= MAX_ITERATIONS
  THEN [ centroids |-> centroids, assignments |-> assignments ]
  ELSE WithValue(Assign(embeddings, centroids), LAMBDA newAssignments :
         IF newAssignments = assignments
         THEN [ centroids |-> centroids, assignments |-> newAssignments ]
         ELSE WithValue([ c \in 1..Len(centroids) |->
                            WithValue(At(embeddings, Members(newAssignments, c)),
                              LAMBDA clusterEmbeddings :
                                IF Len(clusterEmbeddings) > 0
                                THEN meanPool(clusterEmbeddings)
                                ELSE centroids[c]) ],
                        LAMBDA recomputed :
                          Iterate(embeddings, recomputed, newAssignments, iter + 1)))

\* kMeansClustering(embeddings, k), random the value Math.random() returns
kMeansClustering(embeddings, k, random) ==
  IF Len(embeddings) <= k
  THEN [ i \in 1..Len(embeddings) |->
           [ centroid |-> embeddings[i], itemIndices |-> << i >> ] ]
  ELSE LET firstIdx == FirstIdx(random, Len(embeddings))
           all(done) == [ c \in 1..k |-> [ centroid |-> done.centroids[c],
                                           itemIndices |-> Members(done.assignments, c) ] ]
       IN WithValue(At(embeddings, InitCentroids(embeddings, k, << firstIdx >>)),
            LAMBDA centroids :
              WithValue(Iterate(embeddings, centroids,
                                [ i \in 1..Len(embeddings) |-> 1 ], 0),
                LAMBDA done : SelectSeq(all(done), LAMBDA r : Len(r.itemIndices) > 0)))

(* ------------------------------------------------------------------ *)
(* KnowledgeTreeService.buildTree                                       *)
(* ------------------------------------------------------------------ *)
NodeRow(id, parentId, domain, depth, embedding, itemCount, now) ==
  [ id |-> id, parentId |-> parentId, domain |-> domain, depth |-> depth,
    embedding |-> serializeEmbedding(embedding), itemCount |-> itemCount,
    createdAt |-> now, updatedAt |-> now ]

\* item.sourceType || 'system'; an absent sourceType is << >>
ItemRow(id, nodeId, domain, content, embedding, sourceType) ==
  [ id |-> id, nodeId |-> nodeId, domain |-> domain, content |-> content,
    embedding |-> serializeEmbedding(embedding),
    sourceType |-> IF sourceType = << >> THEN "system" ELSE sourceType[1] ]

TargetK(depth) ==
  IF depth = 0 THEN L0_TARGET ELSE IF depth = 1 THEN L1_TARGET ELSE L2_TARGET

\* the test without its depth limit
shouldBeLeaf_AnyDepth(items, depth) ==
  Len(items) <= MIN_LEAF_SIZE \/ Len(items) <= TargetK(depth)

shouldBeLeaf(items, depth) ==
  \/ Len(items) <= MIN_LEAF_SIZE
  \/ depth >= TREE_MAX_DEPTH
  \/ Len(items) <= TargetK(depth)

\* the value of the next Math.random() call of a buildTree call
NextRandom(t) == t.randoms[(t.calls % Len(t.randoms)) + 1]

\* buildSubtree on the tables t = [nodes, items, nextNodeId, nextItemId, randoms,
\* calls]; the result is the tables after it
RECURSIVE buildSubtree(_, _, _, _, _, _)
RECURSIVE BuildClusters(_, _, _, _, _, _, _)
buildSubtree(items, domain, parentId, depth, now, t) ==
  IF shouldBeLeaf(items, depth)
  THEN LET nodeEmbedding ==
             WithValue([ i \in 1..Len(items) |-> items[i].embedding ],
                       LAMBDA embeddings : meanPool(embeddings))
           node == NodeRow(t.nextNodeId, parentId, domain, depth, nodeEmbedding,
                           Len(items), now)
       IN [ t EXCEPT !.nodes = @ \cup { node },
                     !.nextNodeId = @ + 1,
                     !.items = @ \cup { ItemRow(t.nextItemId + i - 1, node.id, domain,
                                                items[i].content, items[i].embedding,
                                                items[i].sourceType) :
                                        i \in 1..Len(items) },
                     !.nextItemId = @ + Len(items) ]
  ELSE WithValue([ i \in 1..Len(items) |-> items[i].embedding ], LAMBDA embeddings :
         WithValue(kMeansClustering(embeddings, TargetK(depth), NextRandom(t)),
           LAMBDA clusters :
             BuildClusters(clusters, items, domain, parentId, depth, now,
                           [ t EXCEPT !.calls = @ + 1 ])))

\* "Create a node for each cluster and recurse"
BuildClusters(clusters, items, domain, parentId, depth, now, t) ==
  IF clusters = << >> THEN t
  ELSE LET cluster == Head(clusters)
           node(clusterItems) ==
             NodeRow(t.nextNodeId, parentId, domain, depth, cluster.centroid,
                     Len(clusterItems), now)
           inserted(clusterItems) ==
             [ t EXCEPT !.nodes = @ \cup { node(clusterItems) }, !.nextNodeId = @ + 1 ]
       IN WithValue(At(items, cluster.itemIndices), LAMBDA clusterItems :
            WithValue(inserted(clusterItems), LAMBDA t1 :
              WithValue(buildSubtree(clusterItems, domain, t.nextNodeId, depth + 1, now, t1),
                LAMBDA t2 :
                  BuildClusters(Tail(clusters), items, domain, parentId, depth, now, t2))))

\* the inputs of buildTree: items of the contents "p", "q", "r", whose embeddings
\* are those of the contents; the items of content "q" carry a sourceType
Item(content) ==
  [ content |-> content, embedding |-> embed(<< content >>),
    sourceType |-> IF content = "q" THEN << "user" >> ELSE << >> ]
Copies(content, n) == [ i \in 1..n |-> Item(content) ]
BuildInputs ==
  { << >>,
    Copies("p", 1) \o Copies("q", 1),
    Copies("p", 6) \o Copies("q", 5),
    Copies("p", 11),
    Copies("q", 1) \o Copies("p", 11),
    Copies("p", 4) \o Copies("q", 4) \o Copies("r", 3) }
\* fifty items that no clustering separates, and two groups that one does
LargeInputs == { Copies("p", MAX_LEAF_SIZE), Copies("p", 6) \o Copies("q", 5) }
Contents == { "p", "q", "r" }
Domains == { "photos", "computer" }
RandomValues == { 0, 9 }
RandomStreams == { << a, b >> : a, b \in RandomValues }

\* buildTree(items, domain) for items of inputs, its Math.random() calls returning
\* one of streams
BuildTreeOf(inputs, streams) ==
  /\ treeOp.count < MaxTreeOps
  /\ \E items \in inputs, domain \in Domains, randoms \in streams :
       LET cleared == [ nodes |-> { n \in knowledgeNodes : n.domain # domain },
                        items |-> { i \in knowledgeItems : i.domain # domain },
                        nextNodeId |-> nextNodeId, nextItemId |-> nextItemId,
                        randoms |-> randoms, calls |-> 0 ]
           built == IF Len(items) = 0 THEN cleared
                    ELSE buildSubtree(items, domain, 0, 0, treeClock, cleared)
       IN /\ knowledgeNodes' = built.nodes
          /\ knowledgeItems' = built.items
          /\ nextNodeId' = built.nextNodeId
          /\ nextItemId' = built.nextItemId
          /\ treeOp' = [ NoTreeOp EXCEPT !.op = "buildTree", !.domain = domain,
                                         !.given = items, !.count = treeOp.count + 1,
                                         !.preNodes = knowledgeNodes,
                                         !.preItems = knowledgeItems ]
  /\ treeClock' = treeClock + 1
  /\ UNCHANGED << fsVars, storeVars, pc, job, spc, sjob, obs, faults, moreVars >>

BuildTree == BuildTreeOf(BuildInputs, RandomStreams)

(* ------------------------------------------------------------------ *)
(* KnowledgeTreeService.addItem                                         *)
(* ------------------------------------------------------------------ *)
RootNodes(domain) == SortById({ n \in knowledgeNodes : n.domain = domain /\ n.parentId = 0 })
ChildNodes(id) == SortById({ n \in knowledgeNodes : n.parentId = id })

\* the descent that takes the first node of every level, whatever its score
BestNode_First(currentNodes, embedding) == currentNodes[1]

\* scored.sort((a, b) => b.score - a.score)[0]: the sort is stable
BestNode(currentNodes, embedding) ==
  currentNodes[FirstMax([ i \in 1..Len(currentNodes) |->
                            similaritySq(embedding,
                                         deserializeEmbedding(currentNodes[i].embedding)) ])]

\* "Navigate to best leaf"
RECURSIVE BestLeaf(_, _)
BestLeaf(currentNodes, embedding) ==
  LET bestNode == BestNode(currentNodes, embedding)
      children == ChildNodes(bestNode.id)
  IN IF Len(children) = 0 THEN bestNode ELSE BestLeaf(children, embedding)

\* the update without its where clause
UpdateNode_EveryRow(id, newNodeEmbedding, itemCount, now) ==
  { [ n EXCEPT !.embedding = serializeEmbedding(newNodeEmbedding),
               !.itemCount = itemCount,
               !.updatedAt = now ] : n \in knowledgeNodes }

\* db.update(knowledgeNodes).set({ embedding, itemCount, updatedAt }).where(eq(id, bestNode.id))
UpdateNode(id, newNodeEmbedding, itemCount, now) ==
  { IF n.id = id
    THEN [ n EXCEPT !.embedding = serializeEmbedding(newNodeEmbedding),
                    !.itemCount = itemCount,
                    !.updatedAt = now ]
    ELSE n : n \in knowledgeNodes }

AddItem ==
  /\ treeOp.count < MaxTreeOps
  /\ \E content \in Contents, domain \in Domains :
       LET embedding == embed(<< content >>)
           currentNodes == RootNodes(domain)
           done(leaf) == [ NoTreeOp EXCEPT !.op = "addItem", !.domain = domain,
                                           !.content = content, !.leaf = leaf,
                                           !.hadRoot = (Len(currentNodes) # 0),
                                           !.count = treeOp.count + 1,
                                           !.preNodes = knowledgeNodes,
                                           !.preItems = knowledgeItems ]
       IN IF Len(currentNodes) = 0
          THEN \* "No tree exists, create root node"
               /\ knowledgeNodes' = knowledgeNodes \cup
                    { NodeRow(nextNodeId, 0, domain, 0, embedding, 1, treeClock) }
               /\ knowledgeItems' = knowledgeItems \cup
                    { ItemRow(nextItemId, nextNodeId, domain, content, embedding,
                              << "user" >>) }
               /\ nextNodeId' = nextNodeId + 1
               /\ treeOp' = done(nextNodeId)
          ELSE LET bestNode == BestLeaf(currentNodes, embedding)
                   inserted == knowledgeItems \cup
                                 { ItemRow(nextItemId, bestNode.id, domain, content,
                                           embedding, << "user" >>) }
                   items == SortById({ i \in inserted : i.nodeId = bestNode.id })
                   newNodeEmbedding ==
                     WithValue([ i \in 1..Len(items) |->
                                   deserializeEmbedding(items[i].embedding) ],
                               LAMBDA embeddings : meanPool(embeddings))
               IN /\ knowledgeItems' = inserted
                  /\ knowledgeNodes' =
                       UpdateNode(bestNode.id, newNodeEmbedding, Len(items), treeClock)
                  \* items.length > MAX_LEAF_SIZE is logged: "TODO: Implement split logic"
                  /\ nextNodeId' = nextNodeId
                  /\ treeOp' = done(bestNode.id)
  /\ nextItemId' = nextItemId + 1
  /\ treeClock' = treeClock + 1
  /\ UNCHANGED << fsVars, storeVars, pc, job, spc, sjob, obs, faults, moreVars >>

TreeInit ==
  /\ fsDirs = DirUniverse /\ fsFiles = StaticTree
  /\ folders = {} /\ files = {} /\ chunks = {}
  /\ nextFolderId = 1 /\ nextFileId = 1
  /\ pc = "idle" /\ job = IdleJob
  /\ spc = "idle" /\ sjob = IdleSearch
  /\ obs = [ passes |-> 0, fsOps |-> 0, fsDirty |-> FALSE,
             clean |-> FALSE, running |-> "none", lastKind |-> "none",
             rename |-> << >>,
             pre |-> [ folders |-> {}, files |-> {}, chunks |-> {} ],
             preFs |-> fsFiles ]
  /\ faults = NoFaults
  /\ EmptyKnowledge

TreeNext == BuildTree \/ AddItem

TreeSpec == TreeInit /\ [][TreeNext]_vars

\* the same service fed a list that ends in one leaf of MAX_LEAF_SIZE items
BuildLargeTree == BuildTreeOf(LargeInputs, { << 0, 9 >> })
LargeTreeNext == BuildLargeTree \/ AddItem
LargeTreeSpec == TreeInit /\ [][LargeTreeNext]_vars

(* ------------------------------------------------------------------ *)
(* Vocabulary of the knowledge tree claims                              *)
(* ------------------------------------------------------------------ *)
IsLeaf(n) == \A m \in knowledgeNodes : m.parentId # n.id
NodesOf(rows, domain) == { n \in rows : n.domain = domain }
Ids(rows) == { r.id : r \in rows }

\* the items stored at or below node id
RECURSIVE SubtreeItems(_)
SubtreeItems(id) ==
  { i \in knowledgeItems : i.nodeId = id }
  \cup UNION { SubtreeItems(m.id) : m \in { n \in knowledgeNodes : n.parentId = id } }

\* the nodes above node n
RECURSIVE Ancestors(_)
Ancestors(n) ==
  IF n.parentId = 0 THEN {}
  ELSE LET up == { m \in knowledgeNodes : m.id = n.parentId }
       IN up \cup UNION { Ancestors(m) : m \in up }

\* two vectors that normalise to the same vector
SameDirection(a, b) ==
  /\ (a = ZeroVec) <=> (b = ZeroVec)
  /\ similaritySq(a, b).num = similaritySq(a, b).den \/ a = ZeroVec

\* how many given items, and how many stored items of the domain, are item x
GivenCount(x) == Cardinality({ i \in 1..Len(treeOp.given) : treeOp.given[i] = x })
StoredCount(x) ==
  Cardinality({ i \in NodesOf(knowledgeItems, treeOp.domain) :
                  /\ i.content = x.content
                  /\ i.embedding = serializeEmbedding(x.embedding)
                  /\ (x.sourceType # << >> => i.sourceType = x.sourceType[1]) })

(* ------------------------------------------------------------------ *)
(* C18                                                                  *)
(* ------------------------------------------------------------------ *)
\* C18: after buildTree(items, domain) the items stored for the domain are the
\* given items, each as often as it was given, every one attached to a node of
\* the domain that has no child; no node or item row the domain had before is
\* left, and the rows of the other domains are as they were.
C18_BuildTreeStoresExactlyTheItems ==
  treeOp.op = "buildTree" =>
    LET d == treeOp.domain
        stored == NodesOf(knowledgeItems, d)
    IN /\ Cardinality(stored) = Len(treeOp.given)
       /\ \A x \in Range(treeOp.given) : StoredCount(x) = GivenCount(x)
       /\ \A i \in stored :
            \E n \in NodesOf(knowledgeNodes, d) : n.id = i.nodeId /\ IsLeaf(n)
       /\ Ids(NodesOf(knowledgeNodes, d)) \cap Ids(NodesOf(treeOp.preNodes, d)) = {}
       /\ Ids(stored) \cap Ids(NodesOf(treeOp.preItems, d)) = {}
       /\ knowledgeNodes \ NodesOf(knowledgeNodes, d)
            = treeOp.preNodes \ NodesOf(treeOp.preNodes, d)
       /\ knowledgeItems \ stored = treeOp.preItems \ NodesOf(treeOp.preItems, d)

\* a build of eleven or more items that the clustering split, over a domain
\* that held a tree
C18_Witness ==
  /\ treeOp.op = "buildTree"
  /\ Len(treeOp.given) > MIN_LEAF_SIZE
  /\ NodesOf(treeOp.preNodes, treeOp.domain) # {}
  /\ NodesOf(treeOp.preItems, treeOp.domain) # {}
  /\ \E n \in NodesOf(knowledgeNodes, treeOp.domain) : ~IsLeaf(n)

\* a build over one domain while the other holds a tree
C18_OtherDomainWitness ==
  /\ treeOp.op = "buildTree"
  /\ treeOp.given # << >>
  /\ \E n \in treeOp.preNodes : n.domain # treeOp.domain

(* ------------------------------------------------------------------ *)
(* C19                                                                  *)
(* ------------------------------------------------------------------ *)
\* C19: every node's itemCount is the number of items stored in its subtree and
\* its embedding is the normalised mean of their embeddings, after any sequence
\* of buildTree and addItem calls.
C19_CountsAndCentroidsMatchSubtrees ==
  \A n \in knowledgeNodes :
    LET below == SortById(SubtreeItems(n.id))
    IN /\ n.itemCount = Len(below)
       /\ SameDirection(deserializeEmbedding(n.embedding),
                        meanPool([ i \in 1..Len(below) |->
                                     deserializeEmbedding(below[i].embedding) ]))

\* the same, for the states a buildTree call leaves
C19_HoldsAfterBuildTree == treeOp.op = "buildTree" => C19_CountsAndCentroidsMatchSubtrees

(* ------------------------------------------------------------------ *)
(* C20                                                                  *)
(* ------------------------------------------------------------------ *)
\* C20: addItem on a domain that has a root leaves the set of nodes and every
\* node's parent as they were, also when the leaf then holds more than
\* MAX_LEAF_SIZE items; the only node row that differs is the leaf the item went
\* to, in its embedding, its itemCount and its updatedAt.
C20_AddItemChangesOnlyItsLeaf ==
  (treeOp.op = "addItem" /\ treeOp.hadRoot) =>
    /\ Ids(knowledgeNodes) = Ids(treeOp.preNodes)
    /\ \A n \in knowledgeNodes : \E o \in treeOp.preNodes :
         /\ o.id = n.id
         /\ o.parentId = n.parentId /\ o.domain = n.domain /\ o.depth = n.depth
         /\ o.createdAt = n.createdAt
         /\ n.id # treeOp.leaf => n = o
    /\ \E n \in knowledgeNodes :
         /\ n.id = treeOp.leaf /\ IsLeaf(n)
         /\ n.itemCount = Cardinality({ i \in knowledgeItems : i.nodeId = n.id })
    /\ Cardinality(knowledgeItems) = Cardinality(treeOp.preItems) + 1

\* an item added to a leaf below the root that then holds MAX_LEAF_SIZE + 1 items
C20_Witness ==
  /\ treeOp.op = "addItem" /\ treeOp.hadRoot
  /\ \E n \in knowledgeNodes :
       /\ n.id = treeOp.leaf /\ n.parentId # 0
       /\ n.itemCount > MAX_LEAF_SIZE
       /\ n.updatedAt # n.createdAt

\* C17, incremental path: no pass ends with indexFromRoot rejecting.
C17_NoPassIsRejected == obs.lastKind # "rejected"

(* ------------------------------------------------------------------ *)
(* C21                                                                  *)
(* ------------------------------------------------------------------ *)
\* the nodes of the last call's domain that hold items
NodesWithItems == { i.nodeId : i \in NodesOf(knowledgeItems, treeOp.domain) }

\* C21: after buildTree with MIN_LEAF_SIZE + 1 = 11 items, whatever Math.random()
\* returned, the items of the domain are attached to at least two nodes.
C21_ElevenItemsAreSplit ==
  (treeOp.op = "buildTree" /\ Len(treeOp.given) = MIN_LEAF_SIZE + 1)
    => Cardinality(NodesWithItems) >= 2

\* the same for lists in which two items differ in their embedding
C21_SplitWhenEmbeddingsDiffer ==
  (/\ treeOp.op = "buildTree" /\ Len(treeOp.given) = MIN_LEAF_SIZE + 1
   /\ \E i, j \in 1..Len(treeOp.given) : treeOp.given[i].embedding # treeOp.given[j].embedding)
    => Cardinality(NodesWithItems) >= 2

(* ------------------------------------------------------------------ *)
(* KnowledgeTreeService.query                                           *)
(* ------------------------------------------------------------------ *)
MaxQueries == 2

baseVars == << fsVars, storeVars, pc, job, spc, sjob, obs, faults >>

DropAt(s, i) == SubSeq(s, 1, i - 1) \o SubSeq(s, i + 1, Len(s))

\* the sort with ties broken by the number of calls made so far
RECURSIVE SortScored_TiesByCall(_, _)
SortScored_TiesByCall(rows, scores) ==
  IF Len(rows) = 0 THEN << >>
  ELSE LET i == IF Len(queryLog) % 2 = 0
                 THEN FirstMax(scores)
                 ELSE CHOOSE k \in 1..Len(rows) :
                        /\ \A j \in 1..Len(rows) : ~Greater(scores[j], scores[k])
                        /\ \A j \in (k + 1)..Len(rows) : Greater(scores[k], scores[j])
       IN << rows[i] >> \o SortScored_TiesByCall(DropAt(rows, i), DropAt(scores, i))

\* scored.sort((a, b) => b.score - a.score): descending, equal scores keep their order
RECURSIVE SortScored(_, _)
SortScored(rows, scores) ==
  IF Len(rows) = 0 THEN << >>
  ELSE LET i == FirstMax(scores)
       IN << rows[i] >> \o SortScored(DropAt(rows, i), DropAt(scores, i))

\* db.select().from(knowledgeItems).where(eq(knowledgeItems.nodeId, bestNode.id))
ItemsOfNode(id) == SortById({ i \in knowledgeItems : i.nodeId = id })

\* the while (true) loop of query: the nodes picked, level by level
RECURSIVE QueryPath(_, _)
QueryPath(currentNodes, queryVec) ==
  LET bestNode == BestNode(currentNodes, queryVec)
      children == ChildNodes(bestNode.id)
  IN IF Len(children) = 0 THEN << bestNode.id >>
     ELSE << bestNode.id >> \o QueryPath(children, queryVec)

\* "Score and sort items", then scoredItems.slice(0, topK)
QueryItems(leaf, queryVec, topK) ==
  WithValue(ItemsOfNode(leaf), LAMBDA items :
    Slice(SortScored(items,
                      [ i \in 1..Len(items) |->
                          similaritySq(queryVec, deserializeEmbedding(items[i].embedding)) ]),
          topK))

TreeQueryTexts == Contents \cup { "z" }
TopKs == { 1, 5 }

Query ==
  /\ Len(queryLog) < MaxQueries
  /\ \E queryText \in TreeQueryTexts, domain \in Domains, topK \in TopKs :
       LET queryVec == embed(<< queryText >>)
           currentNodes == RootNodes(domain)
           path == IF Len(currentNodes) = 0 THEN << >>
                   ELSE QueryPath(currentNodes, queryVec)
           result == IF Len(currentNodes) = 0 THEN << >>
                     ELSE QueryItems(path[Len(path)], queryVec, topK)
       IN queryLog' = Append(queryLog,
                             [ queryText |-> queryText, domain |-> domain, topK |-> topK,
                               path |-> path, result |-> result ])
  /\ UNCHANGED << baseVars, treeVars, chunking, treeCalls, embedService >>

\* the lists whose trees are queried: one mixed leaf, two leaves under two roots,
\* three leaves
QueryInputs ==
  { Copies("p", 1) \o Copies("q", 1),
    Copies("p", 6) \o Copies("q", 5),
    Copies("p", 4) \o Copies("q", 4) \o Copies("r", 3) }

\* the tree is built, then queried
BuildQueriedTree == queryLog = << >> /\ BuildTreeOf(QueryInputs, { << 0, 9 >> })

QueryNext == BuildQueriedTree \/ Query

QuerySpec == TreeInit /\ [][QueryNext]_vars

SameCall(a, b) ==
  a.queryText = b.queryText /\ a.domain = b.domain /\ a.topK = b.topK

Score(queryText, row) ==
  similaritySq(embed(<< queryText >>), deserializeEmbedding(row.embedding))

NodeOfId(id) == CHOOSE n \in knowledgeNodes : n.id = id

\* the node picked is one of the candidates and none of them scores higher
IsBestOf(q, id, candidates) ==
  /\ \E k \in 1..Len(candidates) : candidates[k].id = id
  /\ \A k \in 1..Len(candidates) :
       ~Greater(Score(q.queryText, candidates[k]), Score(q.queryText, NodeOfId(id)))

FollowsOnePath(q) ==
  /\ Len(q.path) > 0
  /\ IsBestOf(q, q.path[1], RootNodes(q.domain))
  /\ \A k \in 1..(Len(q.path) - 1) : IsBestOf(q, q.path[k + 1], ChildNodes(q.path[k]))
  /\ IsLeaf(NodeOfId(q.path[Len(q.path)]))

ResultIsFromTheLeaf(q) ==
  /\ Len(q.result) <= q.topK
  /\ \A i \in 1..Len(q.result) :
       /\ q.result[i] \in knowledgeItems
       /\ q.result[i].nodeId = q.path[Len(q.path)]
  /\ \A i, j \in 1..Len(q.result) : i # j => q.result[i] # q.result[j]
  /\ \A i \in 1..(Len(q.result) - 1) :
       ~Greater(Score(q.queryText, q.result[i + 1]), Score(q.queryText, q.result[i]))

\* C23: a query returns the empty list when the domain has no root; otherwise it goes
\* down one path, at every level into a node no sibling outscores, ends in a leaf and
\* returns at most topK of that leaf's items in non-increasing similarity.
C23_QueryFollowsOnePathToOneLeaf ==
  \A n \in 1..Len(queryLog) :
    IF Len(RootNodes(queryLog[n].domain)) = 0
    THEN queryLog[n].path = << >> /\ queryLog[n].result = << >>
    ELSE FollowsOnePath(queryLog[n]) /\ ResultIsFromTheLeaf(queryLog[n])

\* a descent of two levels in which the second root wins, cut to topK at the leaf
C23_Witness ==
  \E n \in 1..Len(queryLog) :
    /\ Len(queryLog[n].path) = 2
    /\ queryLog[n].path[1] # RootNodes(queryLog[n].domain)[1].id
    /\ Len(queryLog[n].result) = queryLog[n].topK
    /\ Len(ItemsOfNode(queryLog[n].path[2])) > queryLog[n].topK

\* a leaf whose items score differently: the later row comes first
C23_ReorderedWitness ==
  \E n \in 1..Len(queryLog) :
    /\ Len(queryLog[n].result) = 2
    /\ queryLog[n].result[1].id > queryLog[n].result[2].id

\* the domain has no root
C23_NoRootWitness ==
  \E n \in 1..Len(queryLog) :
    /\ knowledgeNodes # {}
    /\ Len(RootNodes(queryLog[n].domain)) = 0
    /\ queryLog[n].result = << >>

(* ------------------------------------------------------------------ *)
(* ContentExtractorService.splitIntoChunks / extractWithChunks          *)
(* ------------------------------------------------------------------ *)
CHUNK_SIZE == 512
CHUNK_OVERLAP == 100
MIN_CHUNK_SIZE == 100
MAX_CHUNKS_PER_FILE == 50

\* A content is its length and the places of its whitespace and sentence marks; every
\* other character is a letter.  Positions count from 0 as in the code.
IsWhitespace(content, i) ==
  CASE content.kind = "blank" -> TRUE
    [] content.kind = "newlineEnd" -> i = content.len - 1
    [] content.kind = "sentences" -> i % 80 = 79
    [] content.kind = "words" -> i % 6 = 5
    [] OTHER -> FALSE

IsStop(content, i) == content.kind = "sentences" /\ i % 80 = 78

\* String.prototype.trim on content.slice(from, to): the slice that is left
TrimStart(content, from, to) ==
  IF \A i \in from..(to - 1) : IsWhitespace(content, i) THEN to
  ELSE CHOOSE i \in from..(to - 1) :
         ~IsWhitespace(content, i) /\ \A j \in from..(i - 1) : IsWhitespace(content, j)

TrimEnd(content, from, to) ==
  IF \A i \in from..(to - 1) : IsWhitespace(content, i) THEN from
  ELSE CHOOSE i \in (from + 1)..to :
         ~IsWhitespace(content, i - 1) /\ \A j \in i..(to - 1) : IsWhitespace(content, j)

Trim(content, from, to) ==
  WithValue(TrimStart(content, from, to), LAMBDA start :
    [ from |-> start, to |-> TrimEnd(content, start, to) ])

TextLength(text) == text.to - text.from

\* content.slice(from, to).search(/[.!?]\s/): index in the slice, -1 when none
IsSentenceEnd(content, i, to) ==
  i + 1 < to /\ IsStop(content, i) /\ IsWhitespace(content, i + 1)

SearchSentenceEnd(content, from, to) ==
  IF \A i \in from..(to - 1) : ~IsSentenceEnd(content, i, to) THEN -1
  ELSE (CHOOSE i \in from..(to - 1) :
          IsSentenceEnd(content, i, to)
            /\ \A j \in from..(i - 1) : ~IsSentenceEnd(content, j, to)) - from

MinOf(a, b) == IF a < b THEN a ELSE b
MaxOf(a, b) == IF a > b THEN a ELSE b

\* "Calculate chunk end position" and "Try to find a sentence boundary near the end"
EndPosition(content, position) ==
  LET endPosition == MinOf(position + CHUNK_SIZE, content.len)
      searchStart == MaxOf(position + CHUNK_SIZE - 100, position)
      sentenceEnd == SearchSentenceEnd(content, searchStart,
                                       MinOf(endPosition + 50, content.len))
  IN IF endPosition < content.len /\ sentenceEnd # -1 /\ sentenceEnd > 50
     THEN searchStart + sentenceEnd + 1
     ELSE endPosition

\* the loop that stops at the end of the content only
LoopContinues_NoCap(content, position, chunkCount) == position < content.len

\* while (position < content.length && chunkCount < MAX_CHUNKS_PER_FILE)
LoopContinues(content, position, chunkCount) ==
  position < content.len /\ chunkCount < MAX_CHUNKS_PER_FILE

\* the texts handed to extractWithChunks: nothing, less than one chunk, one chunk, a
\* few chunks, more than MAX_CHUNKS_PER_FILE chunks; plain letters, a trailing newline,
\* sentences, words, blanks
ChunkInputs ==
  { [ len |-> n, kind |-> "letters" ] : n \in { 0, 50, 100, 512, 513, 1000, 21000, 30000 } }
  \cup { [ len |-> n, kind |-> "newlineEnd" ] : n \in { 100, 600 } }
  \cup { [ len |-> n, kind |-> "sentences" ] : n \in { 1000, 3000 } }
  \cup { [ len |-> 1000, kind |-> "words" ], [ len |-> 600, kind |-> "blank" ] }

\* extractWithChunks up to the loop of splitIntoChunks
ExtractWithChunks ==
  /\ chunking.at \in { "idle", "null", "extracted" }
  /\ \E content \in ChunkInputs :
       LET whole == Trim(content, 0, content.len)
           started == [ NoChunking EXCEPT !.content = content ]
       IN chunking' =
            IF TextLength(whole) = 0
              THEN [ started EXCEPT !.at = "null" ]
            ELSE IF content.len <= CHUNK_SIZE
              THEN [ started EXCEPT
                       !.at = "split",
                       !.rawChunks = IF TextLength(whole) >= MIN_CHUNK_SIZE
                                     THEN << [ text |-> whole, offset |-> 0 ] >>
                                     ELSE << >> ]
            ELSE [ started EXCEPT !.at = "loop" ]
  /\ UNCHANGED << baseVars, treeVars, queryLog, treeCalls, embedService >>

\* the locals of one iteration once its body has run
IterationBody(content, position, rawChunks, chunkCount) ==
  WithValue(EndPosition(content, position), LAMBDA endPosition :
    WithValue(Trim(content, position, endPosition), LAMBDA chunkText :
      LET pushed == TextLength(chunkText) >= MIN_CHUNK_SIZE
          \* position <= undefined is false when no chunk was pushed yet
          lastOffset == IF pushed THEN position
                        ELSE IF Len(rawChunks) > 0 THEN rawChunks[Len(rawChunks)].offset
                        ELSE -1
      IN [ rawChunks |-> IF pushed
                         THEN Append(rawChunks, [ text |-> chunkText, offset |-> position ])
                         ELSE rawChunks,
           chunkCount |-> IF pushed THEN chunkCount + 1 ELSE chunkCount,
           position |-> IF lastOffset >= 0 /\ endPosition - CHUNK_OVERLAP <= lastOffset
                        THEN endPosition
                        ELSE endPosition - CHUNK_OVERLAP ]))

\* one iteration of the while loop, and the test that follows it
SplitIteration ==
  /\ chunking.at = "loop"
  /\ chunking' =
       WithValue(IterationBody(chunking.content, chunking.position,
                               chunking.rawChunks, chunking.chunkCount),
                 LAMBDA after :
         [ chunking EXCEPT
             !.at = IF LoopContinues(chunking.content, after.position, after.chunkCount)
                    THEN "loop" ELSE "split",
             !.position = after.position,
             !.previous = chunking.position,
             \* the parity of the iterations run: an iteration that changes no local
             \* of the loop is a step all the same
             !.turn = 1 - chunking.turn,
             !.chunkCount = after.chunkCount,
             !.rawChunks = after.rawChunks ])
  /\ UNCHANGED << baseVars, treeVars, queryLog, treeCalls, embedService >>

\* extractWithChunks after splitIntoChunks returned
EmbedChunks ==
  /\ chunking.at = "split"
  /\ chunking' =
       IF Len(chunking.rawChunks) = 0
       THEN [ chunking EXCEPT !.at = "null" ]
       ELSE [ chunking EXCEPT
                !.at = "extracted",
                !.chunks = [ index \in 1..Len(chunking.rawChunks) |->
                               [ content |-> chunking.rawChunks[index].text,
                                 embedding |-> embed(<< chunking.content.kind,
                                                        chunking.rawChunks[index].text.from,
                                                        chunking.rawChunks[index].text.to >>),
                                 charOffset |-> chunking.rawChunks[index].offset,
                                 chunkIndex |-> index - 1 ] ] ]
  /\ UNCHANGED << baseVars, treeVars, queryLog, treeCalls, embedService >>

ChunkNext == ExtractWithChunks \/ SplitIteration \/ EmbedChunks

ChunkSpec == TreeInit /\ [][ChunkNext]_vars

\* the loop is one synchronous run of the event loop: an iteration that can run, runs
ChunkLiveSpec == ChunkSpec /\ WF_vars(SplitIteration) /\ WF_vars(EmbedChunks)

\* C25: the chunks of an extracted text carry the indices 0..n-1 in order, their
\* character offsets never decrease with the index, and n is at most
\* MAX_CHUNKS_PER_FILE.
C25_ChunksAreIndexedOrderedAndCapped ==
  /\ Len(chunking.rawChunks) <= MAX_CHUNKS_PER_FILE
  /\ chunking.at = "extracted" =>
       /\ Len(chunking.chunks) = Len(chunking.rawChunks)
       /\ Len(chunking.chunks) <= MAX_CHUNKS_PER_FILE
       /\ \A i \in 1..Len(chunking.chunks) : chunking.chunks[i].chunkIndex = i - 1
       /\ \A i \in 1..(Len(chunking.chunks) - 1) :
            chunking.chunks[i].charOffset <= chunking.chunks[i + 1].charOffset

\* a text cut off at the cap, with content left behind the last chunk
C25_Witness ==
  /\ chunking.at = "extracted"
  /\ Len(chunking.chunks) = MAX_CHUNKS_PER_FILE
  /\ chunking.position < chunking.content.len

\* a text split at sentence ends
C25_SentenceWitness ==
  /\ chunking.at = "extracted"
  /\ Len(chunking.chunks) > 2
  /\ \E i \in 1..Len(chunking.chunks) :
       chunking.chunks[i].content.to - chunking.chunks[i].charOffset
         \notin { CHUNK_SIZE, chunking.content.len - chunking.chunks[i].charOffset }

\* C26: splitIntoChunks returns for every content longer than CHUNK_SIZE.
C26_SplitTerminates == (chunking.at = "loop") ~> (chunking.at # "loop")

\* C26, the step: every iteration leaves the scan position further on than it found it.
C26_PositionAdvances ==
  (chunking.at \in { "loop", "split" } /\ chunking.previous >= 0)
    => chunking.position > chunking.previous

\* C26 for contents whose last MIN_CHUNK_SIZE characters, trimmed, are still a chunk
C26_AdvancesWhenTheTailIsAChunk ==
  ( /\ chunking.at \in { "loop", "split" } /\ chunking.previous >= 0
    /\ TextLength(Trim(chunking.content, chunking.content.len - CHUNK_OVERLAP,
                       chunking.content.len)) >= MIN_CHUNK_SIZE )
    => chunking.position > chunking.previous

(* ------------------------------------------------------------------ *)
(* KnowledgeTreeService calls that overlap: every await of a store      *)
(* statement is a point where another call may run                      *)
(* ------------------------------------------------------------------ *)
MaxCalls == 3

\* PersonalMemoryService.learn adds to, and rebuildTree rebuilds, the domain 'personal'
CallDomain == "personal"
CallContents == { "p", "q" }
MaxBuilds == 2
\* lists for buildTree calls made one after the other: one that fits a leaf, one that
\* splits in two, and equal embeddings that no clustering separates
BuildCallInputs ==
  { Copies("p", 1) \o Copies("q", 1), Copies("p", 6) \o Copies("q", 5),
    Copies("p", L2_TARGET + 1) }
\* the list of the buildTree call that overlaps addItem calls
CallInputs == { Copies("p", 1) \o Copies("q", 1) }

NoCall ==
  [ op |-> "none", at |-> "done", domain |-> "", content |-> "", given |-> << >>,
    bestNode |-> 0, hadRoot |-> FALSE, newNodeEmbedding |-> ZeroVec, itemCount |-> 0,
    tasks |-> << >> ]

Calls == 1..Len(treeCalls)
Running(c, op, at) == c \in Calls /\ treeCalls[c].op = op /\ treeCalls[c].at = at
otherVars == << baseVars, treeClock, treeOp, chunking, queryLog, embedService >>

\* learn(fact): addItem(fact, 'personal', 'user'), up to the select of the roots
CallAddItem ==
  /\ Len(treeCalls) < MaxCalls
  /\ \E content \in CallContents :
       treeCalls' = Append(treeCalls, [ NoCall EXCEPT !.op = "addItem", !.at = "selectRoots",
                                                       !.domain = CallDomain,
                                                       !.content = content ])
  /\ UNCHANGED << knowledgeNodes, knowledgeItems, nextNodeId, nextItemId, otherVars >>

\* the select of the root nodes returns
SelectRoots(c) ==
  /\ Running(c, "addItem", "selectRoots")
  /\ LET call == treeCalls[c]
         currentNodes == RootNodes(call.domain)
     IN treeCalls' =
          [ treeCalls EXCEPT ![c] =
              IF Len(currentNodes) = 0
              THEN [ call EXCEPT !.at = "insertRoot" ]
              ELSE [ call EXCEPT !.at = "selectChildren", !.hadRoot = TRUE,
                                 !.bestNode = BestNode(currentNodes,
                                                       embed(<< call.content >>)).id ] ]
  /\ UNCHANGED << knowledgeNodes, knowledgeItems, nextNodeId, nextItemId, otherVars >>

\* "No tree exists, create root node"
InsertRoot(c) ==
  /\ Running(c, "addItem", "insertRoot")
  /\ knowledgeNodes' = knowledgeNodes \cup
       { NodeRow(nextNodeId, 0, treeCalls[c].domain, 0, embed(<< treeCalls[c].content >>),
                 1, treeClock) }
  /\ nextNodeId' = nextNodeId + 1
  /\ treeCalls' = [ treeCalls EXCEPT ![c].at = "insertRootItem", ![c].bestNode = nextNodeId ]
  /\ UNCHANGED << knowledgeItems, nextItemId, otherVars >>

\* the insert of the item, under the new root or under the leaf found
InsertItem(c) ==
  /\ Running(c, "addItem", "insertRootItem") \/ Running(c, "addItem", "insertItem")
  /\ knowledgeItems' = knowledgeItems \cup
       { ItemRow(nextItemId, treeCalls[c].bestNode, treeCalls[c].domain,
                 treeCalls[c].content, embed(<< treeCalls[c].content >>), << "user" >>) }
  /\ nextItemId' = nextItemId + 1
  /\ treeCalls' = [ treeCalls EXCEPT
                      ![c].at = IF treeCalls[c].at = "insertRootItem"
                                THEN "done" ELSE "selectItems" ]
  /\ UNCHANGED << knowledgeNodes, nextNodeId, otherVars >>

\* the select of the children of bestNode returns
SelectChildren(c) ==
  /\ Running(c, "addItem", "selectChildren")
  /\ LET call == treeCalls[c]
         children == ChildNodes(call.bestNode)
     IN treeCalls' =
          [ treeCalls EXCEPT ![c] =
              IF Len(children) = 0
              THEN [ call EXCEPT !.at = "insertItem" ]
              ELSE [ call EXCEPT !.bestNode = BestNode(children,
                                                       embed(<< call.content >>)).id ] ]
  /\ UNCHANGED << knowledgeNodes, knowledgeItems, nextNodeId, nextItemId, otherVars >>

\* the select of the items of bestNode returns; meanPool of what it returned
SelectItems(c) ==
  /\ Running(c, "addItem", "selectItems")
  /\ LET items == ItemsOfNode(treeCalls[c].bestNode)
     IN treeCalls' =
          [ treeCalls EXCEPT
              ![c].at = "updateNode",
              ![c].itemCount = Len(items),
              ![c].newNodeEmbedding =
                 WithValue([ i \in 1..Len(items) |->
                               deserializeEmbedding(items[i].embedding) ],
                           LAMBDA embeddings : meanPool(embeddings)) ]
  /\ UNCHANGED << knowledgeNodes, knowledgeItems, nextNodeId, nextItemId, otherVars >>

\* the update of bestNode
UpdateBestNode(c) ==
  /\ Running(c, "addItem", "updateNode")
  /\ knowledgeNodes' = UpdateNode(treeCalls[c].bestNode, treeCalls[c].newNodeEmbedding,
                                  treeCalls[c].itemCount, treeClock)
  /\ treeCalls' = [ treeCalls EXCEPT ![c].at = "done" ]
  /\ UNCHANGED << knowledgeItems, nextNodeId, nextItemId, otherVars >>

AddItemStep(c) ==
  \/ SelectRoots(c) \/ InsertRoot(c) \/ InsertItem(c)
  \/ SelectChildren(c) \/ SelectItems(c) \/ UpdateBestNode(c)

\* buildTree(items, 'personal'), up to the first delete
StartBuildTree(inputs) ==
  /\ \E items \in inputs :
       treeCalls' = Append(treeCalls, [ NoCall EXCEPT !.op = "buildTree", !.at = "deleteItems",
                                                       !.domain = CallDomain,
                                                       !.given = items ])
  /\ UNCHANGED << knowledgeNodes, knowledgeItems, nextNodeId, nextItemId, otherVars >>

\* what a buildTree call still has to do, first thing first: a buildSubtree call, the
\* insert of an item of a leaf, or the next turn of the loop over the clusters
SubtreeTask(items, parentId, depth) ==
  [ kind |-> "buildSubtree", items |-> items, parentId |-> parentId, depth |-> depth,
    centroid |-> ZeroVec ]
ItemTask(item, nodeId) ==
  [ kind |-> "item", items |-> << item >>, parentId |-> nodeId, depth |-> 0,
    centroid |-> ZeroVec ]
ClusterTask(clusterItems, centroid, parentId, depth) ==
  [ kind |-> "cluster", items |-> clusterItems, parentId |-> parentId, depth |-> depth,
    centroid |-> centroid ]

\* "Clear existing tree for this domain"
DeleteItems(c) ==
  /\ Running(c, "buildTree", "deleteItems")
  /\ knowledgeItems' = { i \in knowledgeItems : i.domain # treeCalls[c].domain }
  /\ treeCalls' = [ treeCalls EXCEPT ![c].at = "deleteNodes" ]
  /\ UNCHANGED << knowledgeNodes, nextNodeId, nextItemId, otherVars >>

DeleteNodes(c) ==
  /\ Running(c, "buildTree", "deleteNodes")
  /\ knowledgeNodes' = { n \in knowledgeNodes : n.domain # treeCalls[c].domain }
  /\ treeCalls' =
       [ treeCalls EXCEPT ![c] =
           IF Len(treeCalls[c].given) = 0
           THEN [ treeCalls[c] EXCEPT !.at = "done" ]
           ELSE [ treeCalls[c] EXCEPT
                    !.at = "buildSubtree",
                    !.tasks = << SubtreeTask(treeCalls[c].given, 0, 0) >> ] ]
  /\ UNCHANGED << knowledgeItems, nextNodeId, nextItemId, otherVars >>

\* buildSubtree and its loops up to and including the next insert: the rows inserted
\* and the tasks that follow
RunTask(task, rest, domain, random) ==
  IF task.kind = "item"
  THEN [ nodes |-> {},
         items |-> { ItemRow(nextItemId, task.parentId, domain, task.items[1].content,
                             task.items[1].embedding, task.items[1].sourceType) },
         tasks |-> rest ]
  ELSE IF task.kind = "cluster"
  THEN [ nodes |-> { NodeRow(nextNodeId, task.parentId, domain, task.depth, task.centroid,
                             Len(task.items), treeClock) },
         items |-> {},
         tasks |-> << SubtreeTask(task.items, nextNodeId, task.depth + 1) >> \o rest ]
  ELSE IF shouldBeLeaf(task.items, task.depth)
  THEN [ nodes |-> { NodeRow(nextNodeId, task.parentId, domain, task.depth,
                             WithValue([ i \in 1..Len(task.items) |-> task.items[i].embedding ],
                                       LAMBDA embeddings : meanPool(embeddings)),
                             Len(task.items), treeClock) },
         items |-> {},
         tasks |-> [ i \in 1..Len(task.items) |-> ItemTask(task.items[i], nextNodeId) ]
                     \o rest ]
  ELSE WithValue(kMeansClustering([ i \in 1..Len(task.items) |-> task.items[i].embedding ],
                                  TargetK(task.depth), random),
         LAMBDA clusters :
           [ nodes |-> { NodeRow(nextNodeId, task.parentId, domain, task.depth,
                                 clusters[1].centroid, Len(clusters[1].itemIndices),
                                 treeClock) },
             items |-> {},
             tasks |-> << SubtreeTask(At(task.items, clusters[1].itemIndices),
                                      nextNodeId, task.depth + 1) >>
                       \o [ k \in 1..(Len(clusters) - 1) |->
                              ClusterTask(At(task.items, clusters[k + 1].itemIndices),
                                          clusters[k + 1].centroid,
                                          task.parentId, task.depth) ]
                       \o rest ])

\* the next insert of a buildTree call returns
BuildSubtreeStep(c) ==
  /\ Running(c, "buildTree", "buildSubtree")
  /\ \E random \in RandomValues :
       \E after \in { RunTask(Head(treeCalls[c].tasks), Tail(treeCalls[c].tasks),
                              treeCalls[c].domain, random) } :
         /\ knowledgeNodes' = knowledgeNodes \cup after.nodes
         /\ knowledgeItems' = knowledgeItems \cup after.items
         /\ nextNodeId' = nextNodeId + Cardinality(after.nodes)
         /\ nextItemId' = nextItemId + Cardinality(after.items)
         /\ treeCalls' = [ treeCalls EXCEPT
                             ![c].tasks = after.tasks,
                             ![c].at = IF Len(after.tasks) = 0
                                       THEN "done" ELSE "buildSubtree" ]
  /\ UNCHANGED otherVars

BuildTreeStep(c) == DeleteItems(c) \/ DeleteNodes(c) \/ BuildSubtreeStep(c)

AddItemSteps == \E c \in 1..MaxCalls : AddItemStep(c)
BuildTreeSteps == \E c \in 1..MaxCalls : BuildTreeStep(c)

\* buildTree calls alone, each made when the one before it has returned
CallBuildTree ==
  /\ Len(treeCalls) < MaxBuilds
  /\ \A c \in Calls : treeCalls[c].at = "done"
  /\ StartBuildTree(BuildCallInputs)
BuildCallsNext == CallBuildTree \/ BuildTreeSteps
BuildCallsSpec == TreeInit /\ [][BuildCallsNext]_vars
\* a store statement that was issued completes, and the call goes on from its await
BuildCallsLiveSpec ==
  BuildCallsSpec /\ \A c \in 1..MaxBuilds : WF_vars(BuildTreeStep(c))

\* addItem calls and one buildTree call, made at any time
CallRebuild ==
  /\ Len(treeCalls) < MaxCalls
  /\ \A c \in Calls : treeCalls[c].op # "buildTree"
  /\ StartBuildTree(CallInputs)
TreeCallsNext == CallAddItem \/ CallRebuild \/ AddItemSteps \/ BuildTreeSteps
TreeCallsSpec == TreeInit /\ [][TreeCallsNext]_vars

AllReturned == \A c \in Calls : treeCalls[c].at = "done"
InFlight(c, op) == c \in Calls /\ treeCalls[c].op = op /\ treeCalls[c].at # "done"
Returned(c) == c \in Calls /\ treeCalls[c].at = "done"

\* C27: every buildTree call returns, equal embeddings included, and no node it stores
\* is deeper than MAX_DEPTH.
C27_BuildTreeReturnsWithinMaxDepth ==
  /\ [](\A n \in knowledgeNodes : n.depth >= 0 /\ n.depth <= TREE_MAX_DEPTH)
  /\ \A c \in 1..MaxBuilds : InFlight(c, "buildTree") ~> Returned(c)

\* a returned call whose items all have one embedding: a chain of single clusters down
\* to a leaf at MAX_DEPTH that holds them all
C27_Witness ==
  /\ Len(treeCalls) > 0 /\ AllReturned
  /\ LET given == treeCalls[Len(treeCalls)].given
     IN /\ Len(given) > L2_TARGET
        /\ \A i \in 1..Len(given) : given[i].embedding = given[1].embedding
        /\ Cardinality(knowledgeNodes) = TREE_MAX_DEPTH + 1
        /\ \E n \in knowledgeNodes :
             /\ n.depth = TREE_MAX_DEPTH
             /\ Cardinality({ i \in knowledgeItems : i.nodeId = n.id }) = Len(given)

AttachedTo(id) == { i \in knowledgeItems : i.nodeId = id }

\* C28: when addItem calls that went down to the same leaf have all returned, the
\* leaf's itemCount is the number of items attached to it and its embedding is the
\* mean of theirs.
C28_NoLostUpdate ==
  ( /\ AllReturned
    /\ \A c \in Calls : treeCalls[c].op = "addItem" )
    => \A a, b \in Calls :
         ( /\ a # b
           /\ treeCalls[a].hadRoot /\ treeCalls[b].hadRoot
           /\ treeCalls[a].bestNode = treeCalls[b].bestNode )
           => \E n \in knowledgeNodes :
                /\ n.id = treeCalls[a].bestNode
                /\ n.itemCount = Cardinality(AttachedTo(n.id))
                /\ SameDirection(deserializeEmbedding(n.embedding),
                                 WithValue(ItemsOfNode(n.id), LAMBDA items :
                                   meanPool([ i \in 1..Len(items) |->
                                                deserializeEmbedding(items[i].embedding) ])))

\* C29: when an addItem call and a buildTree call of one domain have both returned,
\* every item of the domain is attached to a node of the domain that exists and has no
\* child.
C29_ItemsAreOnLeavesOfTheDomain ==
  AllReturned
    => \A i \in NodesOf(knowledgeItems, CallDomain) :
         \E n \in NodesOf(knowledgeNodes, CallDomain) : n.id = i.nodeId /\ IsLeaf(n)

(* ------------------------------------------------------------------ *)
(* EmbeddingService: ensureInitialized, embed, embedBatch               *)
(* ------------------------------------------------------------------ *)
MaxEmbedCalls == 3
BATCH_SIZE == 32

\* ensureInitialized that starts a load whenever the embedder is not there yet
ensureInitialized_NoPromiseCheck(service) ==
  IF service.embedder # "null" THEN service
  ELSE [ service EXCEPT !.initPromise = "pending", !.loads = @ + 1 ]

\* ensureInitialized up to its return: the promise the caller awaits is initPromise,
\* or one already resolved when the embedder is there
ensureInitialized(service) ==
  IF service.embedder # "null" THEN service
  ELSE IF service.initPromise # "null" THEN service
  ELSE [ service EXCEPT !.initPromise = "pending", !.loads = @ + 1 ]

\* embed(text) is one text; embedBatch(texts) of no text, one text, and more texts than
\* one batch takes
EmbedRequests ==
  { [ op |-> "embed", texts |-> 1 ] }
  \cup { [ op |-> "embedBatch", texts |-> n ] : n \in { 0, 1, BATCH_SIZE + 1 } }

\* embedder(batch, ...) calls an embedBatch of n texts makes
Batches(n) == (n + BATCH_SIZE - 1) \div BATCH_SIZE

\* a call of embed or embedBatch, up to its first await
CallEmbed ==
  /\ Len(embedService.calls) < MaxEmbedCalls
  /\ \E request \in EmbedRequests :
       IF request.texts = 0
       THEN \* if (texts.length === 0) return []
            embedService' =
              [ embedService EXCEPT
                  !.calls = Append(@, [ op |-> request.op, texts |-> 0, at |-> "done",
                                        found |-> "none", load |-> 0, batches |-> 0,
                                        embedder |-> "none" ]) ]
       ELSE LET service == ensureInitialized(embedService)
            IN embedService' =
                 [ service EXCEPT
                     !.calls = Append(@, [ op |-> request.op, texts |-> request.texts,
                                           at |-> "awaitInit",
                                           found |-> IF embedService.embedder # "null"
                                                     THEN "embedder"
                                                     ELSE embedService.initPromise,
                                           load |-> service.loads, batches |-> 0,
                                           embedder |-> "none" ]) ]
  /\ UNCHANGED << baseVars, treeVars, chunking, queryLog, treeCalls >>

\* this.embedder = await pipeline(...): the load started by ensureInitialized ends
LoadModel ==
  /\ embedService.initPromise = "pending"
  /\ \/ embedService' = [ embedService EXCEPT !.embedder = "model",
                                               !.initPromise = "fulfilled" ]
     \/ embedService' = [ embedService EXCEPT !.initPromise = "rejected" ]
  /\ UNCHANGED << baseVars, treeVars, chunking, queryLog, treeCalls >>

\* await this.ensureInitialized() returns or throws; const embedder = this.embedder
AfterEnsureInitialized ==
  /\ \E c \in 1..Len(embedService.calls) :
       /\ embedService.calls[c].at = "awaitInit"
       /\ embedService.calls[c].found = "embedder" \/ embedService.initPromise # "pending"
       /\ embedService' =
            [ embedService EXCEPT
                !.calls[c].at = IF embedService.calls[c].found # "embedder"
                                   /\ embedService.initPromise = "rejected"
                                THEN "failed" ELSE "embedding",
                !.calls[c].embedder = embedService.embedder ]
  /\ UNCHANGED << baseVars, treeVars, chunking, queryLog, treeCalls >>

\* await embedder(text or batch, ...) returns
RunEmbedder ==
  /\ \E c \in 1..Len(embedService.calls) :
       /\ embedService.calls[c].at = "embedding"
       /\ embedService' =
            [ embedService EXCEPT
                !.calls[c].batches = @ + 1,
                !.calls[c].at = IF embedService.calls[c].embedder = "null" THEN "failed"
                                ELSE IF embedService.calls[c].batches + 1
                                          >= Batches(embedService.calls[c].texts)
                                THEN "done" ELSE "embedding" ]
  /\ UNCHANGED << baseVars, treeVars, chunking, queryLog, treeCalls >>

EmbedNext == CallEmbed \/ LoadModel \/ AfterEnsureInitialized \/ RunEmbedder

EmbedSpec == TreeInit /\ [][EmbedNext]_vars

\* C30: the model is loaded at most once; a call that has something to embed and finds
\* no embedder waits for load number one, and when it embeds that load has finished and
\* it uses the embedder the load produced.
C30_ModelIsLoadedOnce ==
  /\ embedService.loads <= 1
  /\ \A c \in 1..Len(embedService.calls) :
       LET call == embedService.calls[c]
       IN /\ call.texts > 0 => call.load = 1 /\ embedService.loads = 1
          /\ (call.texts > 0 /\ call.at \in { "embedding", "done" })
               => /\ embedService.initPromise = "fulfilled"
                  /\ call.embedder = "model"
                  /\ embedService.embedder = "model"

\* three calls that arrived before the model was there, the first of which started the
\* load, all done
C30_Witness ==
  /\ Len(embedService.calls) = MaxEmbedCalls
  /\ embedService.calls[1].found = "null"
  /\ \A c \in 2..MaxEmbedCalls : embedService.calls[c].found = "pending"
  /\ \E c \in 1..MaxEmbedCalls : embedService.calls[c].op = "embed"
  /\ \E c \in 1..MaxEmbedCalls : embedService.calls[c].op = "embedBatch"
  /\ \A c \in 1..MaxEmbedCalls : embedService.calls[c].at = "done"

====
